---------------------------- MODULE Spec2Model ----------------------------
(***************************************************************************)
(* Verification development for aztec-wormhole-zkpassport.                 *)
(*                                                                         *)
(* Part 1 (specification Spec): one browser session of the front-end page, *)
(* in its three variants: "txhash" (packages/frontend/app/page.tsx),       *)
(* "donation" (unnamed/part_002, second component) and "address"           *)
(* (unnamed/part_002, first component; the same loop is in                 *)
(* packages/contracts/Interfaces/IDonation.sol).  The session is modelled  *)
(* while the component is mounted.                                         *)
(***************************************************************************)
EXTENDS Integers, Sequences, FiniteSets, TLC

\* ------------------------------------------------------------------ bounds
\* interval timers one session may create
MaxTimers == 2
\* poll requests that may be outstanding at the same time
MaxInFlight == 2
\* verification results whose continuation (formatting, send-message fetch)
\* may be pending at the same time
MaxPending == 1

\* ------------------------------------------------------- strings as data
\* A JavaScript string whose characters the code inspects is a sequence of
\* one-character strings ("" is << >>); undefined and null are one-element
\* sequences no string equals.  A text that is only shown is a TLA+ string.
Undefined == <<"undefined">>
NullValue == <<"null">>

HexDigits == {"0", "1", "2", "3", "4", "5", "6", "7", "8", "9",
              "a", "b", "c", "d", "e", "f", "A", "B", "C", "D", "E", "F"}

DecDigits == {"0", "1", "2", "3", "4", "5", "6", "7", "8", "9"}

RECURSIVE Repeat(_, _)
Repeat(c, n) == IF n <= 0 THEN << >> ELSE <<c>> \o Repeat(c, n - 1)

\* s.startsWith(p)
StartsWith(s, p) == Len(s) >= Len(p) /\ SubSeq(s, 1, Len(p)) = p

IsHexString(s) == \A i \in 1..Len(s) : s[i] \in HexDigits

\* JavaScript truthiness of a string, undefined or null
Truthy(v) == v \notin {Undefined, NullValue, << >>}

\* a || b
OrElse(a, b) == IF Truthy(a) THEN a ELSE b

DigitVal(c) ==
    CASE c = "0" -> 0 [] c = "1" -> 1 [] c = "2" -> 2 [] c = "3" -> 3
      [] c = "4" -> 4 [] c = "5" -> 5 [] c = "6" -> 6 [] c = "7" -> 7
      [] c = "8" -> 8 [] c = "9" -> 9

\* parseInt's NaN, kept apart from every amount
NaN == 0 - 1

\* parseInt(s) of a string: the leading decimal digits, NaN when there are none
RECURSIVE ParseDigits(_, _)
ParseDigits(s, acc) ==
    IF s = << >> \/ Head(s) \notin DecDigits THEN acc
    ELSE ParseDigits(Tail(s), 10 * acc + DigitVal(Head(s)))

ParseInt(s) ==
    IF s = << >> \/ Head(s) \notin DecDigits THEN NaN ELSE ParseDigits(s, 0)

\* ------------------------------------------------------------ page values
Variants == {"txhash", "donation", "address"}

NoTimer == 0
Handles == 1..MaxTimers

\* the zero sentinel the txhash loop compares the message with
ZERO32 == <<"0", "x">> \o Repeat("0", 64)

\* a delivered 32-byte value (42)
MSG42 == <<"0", "x">> \o Repeat("0", 62) \o <<"2", "a">>

\* the transaction hash /api/send-message may answer with
SentHashes == {<<"0", "x", "a", "a">>}

\* NEXT_PUBLIC_DEFAULT_ADDRESS fallback of the address variant
DEFAULT_ADDRESS ==
    <<"0", "x", "d", "6", "1", "1", "F", "1", "A", "F", "9", "D", "0", "5",
      "6", "f", "0", "0", "F", "4", "9", "C", "B", "0", "3", "6", "7", "5",
      "9", "D", "e", "2", "7", "5", "3", "E", "f", "A", "8", "2", "c", "2">>

\* unique identifiers the proof service may report; they are tracked where a
\* polling loop reads them (address variant)
UniqueIds == {Repeat("a", 40)}
ResultIds(v) == IF v = "address" THEN UniqueIds ELSE {<< >>}

\* what the user may type into the donation amount field: nothing, a valid
\* amount, an amount above the limit
\* amount (the field's "" and 0 are both falsy and take the same paths)
EmptyAmount == 0
OkAmount == 7
MAX_DONATION == 254
AmountInputs == {EmptyAmount, OkAmount, MAX_DONATION + 1}
\* the amounts typed in the sessions that are about polling
PollingAmountInputs == {OkAmount}
\* null in lockedDonationAmountRef and in receivedDonation
NoLock == 0 - 1
NoDonation == 0 - 2

VARIABLES
    variant,                  \* which page component runs
    mounted,                  \* the component is mounted (its state exists)
    isPolling,                \* useState isPolling
    pollingIntervalRef,       \* useRef: NoTimer (null) or a timer handle
    created,                  \* handles setInterval has returned so far
    clearCalls,               \* handle -> the clearInterval calls made on it, by call site
    timerHash,                \* handle -> hashToUse / addressToCheck of its closure
    inFlight,                 \* handle -> polls issued by it and not yet answered
    txHash,                   \* useState txHash
    txStatus,                 \* useState txStatus, as the sequence of its parts
    arbitrumMessage,          \* useState arbitrumMessage (txhash, address)
    receivedDonation,         \* useState receivedDonation (donation)
    error,                    \* useState error
    requestInProgress,        \* useState requestInProgress
    isLoading,                \* useState isLoading
    donationAmount,           \* useState donationAmount (donation)
    lockedDonationAmountRef,  \* useRef lockedDonationAmountRef (donation)
    uniqueIdentifier,         \* useState uniqueIdentifier (read by the address loop)
    reqs                      \* slot -> verification request and its continuation

pageVars == <<variant, mounted, isPolling, pollingIntervalRef, created, clearCalls,
              timerHash, inFlight, txHash, txStatus, arbitrumMessage,
              receivedDonation, error, requestInProgress, isLoading,
              donationAmount, lockedDonationAmountRef, uniqueIdentifier, reqs>>

\* the request being handled by /api/get-arbitrum-message
VARIABLES
    gmVersion,    \* which version of the route runs
    gmBody,       \* the parsed request body
    gmPc,         \* where the handler is: "received", "getCode", "call", "done"
    gmTxHash,     \* the local txHash
    gmCallArg,    \* the bytes32 argument of the encoded call
    gmCode,       \* what provider.getCode returned
    gmRaw,        \* what provider.call returned
    gmResponse    \* the JSON response and its status

getVars == <<gmVersion, gmBody, gmPc, gmTxHash, gmCallArg, gmCode, gmRaw, gmResponse>>

\* the request being handled by /api/send-message
VARIABLES
    smBody,          \* the request body
    smScriptExists,  \* fs.existsSync(scriptPath)
    smPc,            \* where the handler is: "received", "exec", "done"
    smStdout,        \* what the script printed
    smResponse       \* the JSON response and its status

sendVars == <<smBody, smScriptExists, smPc, smStdout, smResponse>>

\* one call of ZKPassportHelper.formatProofsForContract
VARIABLES
    fmtProofs,     \* the argument: the proof artifacts
    fmtPc,         \* where the call is: "start", "manifest", "circuits", "done"
    fmtNext,       \* the circuit formatSubCircuit is called for next (1 = A .. 6 = F)
    fmtFound,      \* role -> position in fmtProofs of the artifact found for it, 0 if none
    fmtLog,        \* what the call wrote with console.error
    fmtFetches,    \* the requests made to the registry, in order
    fmtFormatted,  \* the sub-circuit proofs formatted so far
    fmtReturn,     \* how the promise settled: "pending", "undefined", "data", "threw"
    fmtErrors,     \* the errors handed to logError, in order, with their context
    circuitManifest, \* the static field: "unset" until a manifest was stored
    fmtAnswers,    \* what the registry and the proof decoder have answered so far
    fmtFirst       \* << >>, or the input and the outcome of the call before this one

fmtVars == <<fmtProofs, fmtPc, fmtNext, fmtFound, fmtLog, fmtFetches, fmtFormatted,
             fmtReturn, fmtErrors, circuitManifest, fmtAnswers, fmtFirst>>

\* what a step of one part leaves alone
\* the send-message script (Part 5)
VARIABLES
    scVersion,     \* which of the two versions of send-message.mjs is run
    scPc,          \* "ready", "connecting", "witnesses", "calling", "exited"
    scData,        \* the verification data of the run (VERIFICATION_DATA)
    scNonceFile,   \* nonce.json on disk
    scRuns,        \* one record per run, the last one being the current run
    msgArrays      \* the payload built by the current run, << >> before that

scVars == <<scVersion, scPc, scData, scNonceFile, scRuns, msgArrays>>

\* calls of formatProofsForContract that overlap (Part 6) and script processes
\* that run at the same time (Part 7)
VARIABLES
    fmtCalls,      \* call -> where it is, the version of its proofs, the manifests
                   \* its getPackagedCircuit requests were made with, its result
    scJobs         \* process -> where it is, the nonce it read, the nonce it uses

ovVars == <<fmtCalls, scJobs>>

notPage == <<getVars, sendVars, fmtVars, scVars, ovVars>>
notGetMsg == <<pageVars, sendVars, fmtVars, scVars, ovVars>>
notSend == <<pageVars, getVars, fmtVars, scVars, ovVars>>
notFormat == <<pageVars, getVars, sendVars, scVars, ovVars>>
notScript == <<pageVars, getVars, sendVars, fmtVars, ovVars>>
\* the formatter's variables apart from the static field
notCalls == <<pageVars, getVars, sendVars, scVars, scJobs, fmtProofs, fmtPc, fmtNext,
              fmtFound, fmtLog, fmtFetches, fmtFormatted, fmtReturn, fmtErrors,
              fmtAnswers, fmtFirst>>
notJobs == <<pageVars, getVars, sendVars, fmtVars, fmtCalls, scVersion, scPc, scData,
             scRuns, msgArrays>>

\* a state setter: React drops the update once the component is unmounted
SetState(old, new) == IF mounted THEN new ELSE old

\* ---------------------------------------------------------- timer runtime
\* the browser's timer table: a handle ticks until clearInterval is called on it
Active(h) == h <= created /\ clearCalls[h] = << >>
ActiveTimers == {h \in Handles : Active(h)}

\* clearInterval(h), called from the place named site
ClearInterval(calls, h, site) == [calls EXCEPT ![h] = Append(@, site)]

\* a mutation of ClearCurrent: the timer of the ref is not cleared
ClearCurrentNever(calls, ref, site) == calls

\* if (pollingIntervalRef.current) { clearInterval(pollingIntervalRef.current) }
ClearCurrent(calls, ref, site) ==
    IF ref # NoTimer THEN ClearInterval(calls, ref, site) ELSE calls

RECURSIVE SumUpTo(_, _)
SumUpTo(f, n) == IF n = 0 THEN 0 ELSE f[n] + SumUpTo(f, n - 1)

\* poll requests issued and not yet answered
TotalInFlight == SumUpTo(inFlight, MaxTimers)

\* --------------------------------------------------------- poll responses
\* What one fetch of /api/get-arbitrum-message may come back with: the fetch
\* rejects (threw), the route answers with an error status (ok = FALSE), or it
\* answers 200 with the JSON fields the loops read.
NoResp ==
    [kind |-> "none", threw |-> FALSE, ok |-> FALSE, success |-> FALSE,
     message |-> Undefined, amount |-> Undefined, decoded |-> Undefined,
     error |-> ""]

PollMessages == {NullValue, << >>, <<"0", "x">>, ZERO32, MSG42}

\* parsedData.amount: missing, "", "0", "42"
PollAmounts == {Undefined, << >>, <<"0">>, <<"4", "2">>}

PollDecoded == {Undefined, <<"h", "i">>}

ThrownResponses == {[NoResp EXCEPT !.kind = "throw", !.threw = TRUE,
                                   !.error = "Failed to fetch"]}

HttpErrorResponses ==
    {[NoResp EXCEPT !.kind = "http", !.error = e] :
        e \in {"", "Transaction hash is required"}}

\* the 200 responses, with the JSON fields one loop reads
OkResponsesWith(messages, amounts, decodeds) ==
    {[NoResp EXCEPT !.kind = "http", !.ok = TRUE, !.success = s, !.message = m,
                    !.amount = a, !.decoded = d] :
        s \in BOOLEAN, m \in messages, a \in amounts, d \in decodeds}

\* a field the variant's loop never reads is left out (Undefined)
TxHashPollResponses ==
    ThrownResponses \cup HttpErrorResponses
        \cup OkResponsesWith(PollMessages, {Undefined}, {Undefined})

DonationPollResponses ==
    ThrownResponses \cup HttpErrorResponses
        \cup OkResponsesWith({NullValue, MSG42}, PollAmounts, {Undefined})

AddressPollResponses ==
    ThrownResponses \cup HttpErrorResponses
        \cup OkResponsesWith(PollMessages, {Undefined}, PollDecoded)

PollResponses(v) ==
    CASE v = "txhash" -> TxHashPollResponses
      [] v = "donation" -> DonationPollResponses
      [] v = "address" -> AddressPollResponses

\* error.message of what the try block throws
PollErrorMessage(r) ==
    IF r.threw THEN r.error
    ELSE IF r.error # "" THEN r.error ELSE "HTTP error 500"

\* the condition under which a 200 response ends the loop
ConfirmsTxHash(r) ==
    /\ r.success
    /\ Truthy(r.message)
    /\ r.message # <<"0", "x">>
    /\ r.message # ZERO32

ConfirmsDonation(r) == r.success /\ Truthy(r.amount)

ConfirmsAddress(r) ==
    /\ r.success
    /\ Truthy(OrElse(r.decoded, r.message))
    /\ r.message # <<"0", "x">>

Confirms(v, r) ==
    CASE v = "txhash" -> ConfirmsTxHash(r)
      [] v = "donation" -> ConfirmsDonation(r)
      [] v = "address" -> ConfirmsAddress(r)

\* a mutation of ExposedMessage: the confirming branch stores the decoded field
ExposedMessageDecoded(v, r) == r.decoded

\* the value the confirming branch stores for the page to show
ExposedMessage(v, r) ==
    IF v = "address" THEN OrElse(r.decoded, r.message) ELSE r.message

ExposedDonation(r) == ParseInt(r.amount)

ConfirmedStatus(v) ==
    CASE v = "txhash" -> <<"Transaction data received!">>
      [] v = "donation" -> <<"Donation confirmed!">>
      [] v = "address" -> <<"Arbitrum message received!">>

\* a mutation of ErrorStatus: the status does not carry the error's message
ErrorStatusNoMessage(v, msg) == <<"Error polling">>

ErrorStatus(v, msg) ==
    IF v = "donation" THEN <<"Error checking donation: ", msg>>
    ELSE <<"Error polling: ", msg>>

\* ------------------------------------------------- verification requests
\* A slot holds one createRequest call and what follows from it.  The handlers
\* registered by the call close over the render in which the button was
\* clicked: txHash and uniqueIdentifier are the values of that render.
Slots == 1..MaxPending

\* locked: the amount createRequest captured for this request (lockedAmount);
\* amount: the amount its verificationData carries; verified: what the proof
\* service reported in resultData.verified; formatted: formatProofsForContract
\* returned data (contractProofData is not null)
Free == [stage |-> "free", txHash |-> << >>, uid |-> << >>, amount |-> NoLock,
         locked |-> NoLock, verified |-> FALSE, formatted |-> FALSE]

FreeSlots == {i \in Slots : reqs[i].stage = "free"}

\* responses of one fetch of /api/send-message
SendResponses ==
    {[threw |-> TRUE, ok |-> FALSE, success |-> FALSE, txHash |-> Undefined,
      error |-> "Failed to fetch"],
     [threw |-> FALSE, ok |-> FALSE, success |-> FALSE, txHash |-> Undefined,
      error |-> "Error: 500"],
     [threw |-> FALSE, ok |-> TRUE, success |-> FALSE, txHash |-> Undefined,
      error |-> "Could not extract transaction hash from output"],
     [threw |-> FALSE, ok |-> TRUE, success |-> TRUE, txHash |-> Undefined,
      error |-> ""]}
    \cup {[threw |-> FALSE, ok |-> TRUE, success |-> TRUE, txHash |-> h,
           error |-> ""] : h \in SentHashes}

\* the address the address variant polls for
AddressToCheck(uid) ==
    LET stripped == IF StartsWith(uid, <<"0", "x">>)
                    THEN SubSeq(uid, 3, Len(uid)) ELSE uid
        isAddress == Truthy(uid) /\ Len(stripped) = 40 /\ IsHexString(stripped)
        chosen == IF isAddress THEN uid ELSE DEFAULT_ADDRESS
    IN  IF StartsWith(chosen, <<"0", "x">>) THEN chosen ELSE <<"0", "x">> \o chosen

\* hashToUse / addressToCheck of startPolling's closure
HashToUse(v, currentTxHash, closTxHash, closUid) ==
    IF v = "address" THEN AddressToCheck(closUid)
    ELSE OrElse(currentTxHash, closTxHash)

PollingSuffix(v) ==
    CASE v = "txhash" -> " - Polling for transaction data..."
      [] v = "donation" -> " - Checking donation confirmation..."
      [] v = "address" -> " - Polling for Arbitrum message..."

\* startPollingArbitrumMessage / startPollingDonation; prevStatus is the
\* status the functional update appends to
StartPolling(currentTxHash, closTxHash, closUid, prevStatus) ==
    /\ created < MaxTimers
    /\ clearCalls' = ClearCurrent(clearCalls, pollingIntervalRef, "start")
    /\ isPolling' = SetState(isPolling, TRUE)
    /\ txStatus' = SetState(txStatus, Append(prevStatus, PollingSuffix(variant)))
    /\ created' = created + 1
    /\ pollingIntervalRef' = created + 1
    /\ timerHash' = [timerHash EXCEPT
                       ![created + 1] = HashToUse(variant, currentTxHash, closTxHash, closUid)]

\* stopPolling
StopPolling ==
    /\ clearCalls' = ClearCurrent(clearCalls, pollingIntervalRef, "stopPolling")
    /\ pollingIntervalRef' = NoTimer
    /\ isPolling' = FALSE
    /\ txStatus' = Append(txStatus, " - Polling stopped.")

\* the polling button is rendered only while txHash is set
StartPollingClick ==
    /\ mounted
    /\ Truthy(txHash)
    /\ ~isPolling
    /\ StartPolling(txHash, txHash, uniqueIdentifier, txStatus)
    /\ UNCHANGED <<notPage, variant, mounted, inFlight, txHash, arbitrumMessage, receivedDonation,
                   error, requestInProgress, isLoading, donationAmount,
                   lockedDonationAmountRef, uniqueIdentifier, reqs>>

StopPollingClick ==
    /\ mounted
    /\ Truthy(txHash)
    /\ isPolling
    /\ StopPolling
    /\ UNCHANGED <<notPage, variant, mounted, created, timerHash, inFlight, txHash, arbitrumMessage,
                   receivedDonation, error, requestInProgress, isLoading,
                   donationAmount, lockedDonationAmountRef, uniqueIdentifier, reqs>>

\* one firing of the interval callback up to its fetch
Tick(h) ==
    /\ Active(h)
    /\ TotalInFlight < MaxInFlight
    /\ inFlight' = [inFlight EXCEPT ![h] = @ + 1]
    /\ UNCHANGED <<notPage, variant, mounted, isPolling, pollingIntervalRef, created, clearCalls,
                   timerHash, txHash, txStatus, arbitrumMessage, receivedDonation,
                   error, requestInProgress, isLoading, donationAmount,
                   lockedDonationAmountRef, uniqueIdentifier, reqs>>

\* the rest of the interval callback, once its fetch has settled
PollThrew(r) ==
    /\ txStatus' = SetState(txStatus, ErrorStatus(variant, PollErrorMessage(r)))
    /\ clearCalls' = ClearCurrent(clearCalls, pollingIntervalRef, "error")
    /\ pollingIntervalRef' = NoTimer
    /\ isPolling' = SetState(isPolling, FALSE)
    /\ UNCHANGED <<arbitrumMessage, receivedDonation>>

PollConfirmed(r) ==
    /\ IF variant = "donation"
       THEN /\ receivedDonation' = SetState(receivedDonation, ExposedDonation(r))
            /\ UNCHANGED arbitrumMessage
       ELSE /\ arbitrumMessage' = SetState(arbitrumMessage, ExposedMessage(variant, r))
            /\ UNCHANGED receivedDonation
    /\ txStatus' = SetState(txStatus, ConfirmedStatus(variant))
    /\ isPolling' = SetState(isPolling, FALSE)
    /\ clearCalls' = ClearCurrent(clearCalls, pollingIntervalRef, "confirmed")
    /\ pollingIntervalRef' = NoTimer

PollNotYet(r) ==
    /\ UNCHANGED <<txStatus, clearCalls, pollingIntervalRef, isPolling,
                   arbitrumMessage, receivedDonation>>

PollResponse(h, r) ==
    /\ inFlight[h] > 0
    /\ inFlight' = [inFlight EXCEPT ![h] = @ - 1]
    /\ IF r.threw \/ ~r.ok THEN PollThrew(r)
       ELSE IF Confirms(variant, r) THEN PollConfirmed(r)
       ELSE PollNotYet(r)
    /\ UNCHANGED <<notPage, variant, mounted, created, timerHash, txHash, error, requestInProgress,
                   isLoading, donationAmount, lockedDonationAmountRef,
                   uniqueIdentifier, reqs>>

\* createRequest, up to its await of zkPassport.request (the button is disabled
\* while requestInProgress or isLoading, and in the donation page while the
\* amount is empty)
CreateRequestClick ==
    /\ mounted
    /\ ~requestInProgress
    /\ ~isLoading
    /\ variant = "donation" => donationAmount # EmptyAmount
    /\ IF variant = "donation" /\ (donationAmount <= 0 \/ donationAmount > MAX_DONATION)
       THEN /\ error' = "Please enter a valid donation amount between 1 and 254"
            /\ UNCHANGED <<isPolling, txHash, txStatus, arbitrumMessage,
                           receivedDonation, isLoading, lockedDonationAmountRef,
                           uniqueIdentifier, reqs>>
       ELSE /\ FreeSlots # {}
            /\ LET i == CHOOSE j \in FreeSlots : \A k \in FreeSlots : j <= k
               IN  reqs' = [reqs EXCEPT ![i] = [stage |-> "creating", txHash |-> txHash,
                                                uid |-> uniqueIdentifier, amount |-> NoLock,
                                                locked |-> IF variant = "donation"
                                                           THEN donationAmount
                                                           ELSE NoLock,
                                                verified |-> FALSE,
                                                formatted |-> FALSE]]
            /\ lockedDonationAmountRef' =
                   IF variant = "donation" THEN donationAmount ELSE lockedDonationAmountRef
            /\ txHash' = << >>
            /\ txStatus' = << >>
            /\ arbitrumMessage' = NullValue
            /\ receivedDonation' = NoDonation
            /\ isPolling' = FALSE
            /\ error' = ""
            /\ uniqueIdentifier' = << >>
            /\ isLoading' = TRUE
    /\ UNCHANGED <<notPage, variant, mounted, pollingIntervalRef, created, clearCalls, timerHash,
                   inFlight, requestInProgress, donationAmount>>

\* zkPassport.request resolved: the handlers are registered
CreateRequestOpened(i) ==
    /\ reqs[i].stage = "creating"
    /\ reqs' = [reqs EXCEPT ![i].stage = "open"]
    /\ requestInProgress' = SetState(requestInProgress, TRUE)
    /\ isLoading' = SetState(isLoading, FALSE)
    /\ UNCHANGED <<notPage, variant, mounted, isPolling, pollingIntervalRef, created, clearCalls,
                   timerHash, inFlight, txHash, txStatus, arbitrumMessage,
                   receivedDonation, error, donationAmount, lockedDonationAmountRef,
                   uniqueIdentifier>>

\* zkPassport.request rejected: the catch block
CreateRequestFailed(i) ==
    /\ reqs[i].stage = "creating"
    /\ reqs' = [reqs EXCEPT ![i] = Free]
    /\ error' = SetState(error, "Failed to initialize ZKPassport verification")
    /\ isLoading' = SetState(isLoading, FALSE)
    /\ requestInProgress' = SetState(requestInProgress, FALSE)
    /\ lockedDonationAmountRef' =
           IF variant = "donation" THEN NoLock ELSE lockedDonationAmountRef
    /\ UNCHANGED <<notPage, variant, mounted, isPolling, pollingIntervalRef, created, clearCalls,
                   timerHash, inFlight, txHash, txStatus, arbitrumMessage,
                   receivedDonation, donationAmount, uniqueIdentifier>>

SendingStatus(v) ==
    IF v = "donation" THEN <<"Processing your verified donation of N tokens...">>
    ELSE <<"Sending verification data to Aztec contract...">>

\* onResult from "Send data to API" to the fetch of /api/send-message
SendPart(i, verificationResult, contractProofData) ==
    /\ txStatus' = SetState(txStatus, SendingStatus(variant))
    /\ txHash' = SetState(txHash, << >>)
    /\ reqs' = [reqs EXCEPT ![i].stage = "sending",
                            ![i].verified = verificationResult,
                            ![i].formatted = contractProofData,
                            ![i].amount = IF variant = "donation"
                                          THEN lockedDonationAmountRef ELSE NoLock]

\* onResult up to its first await: formatProofsForContract when the result came
\* with proofs (txhash, donation), the fetch otherwise.  uniqueIdentifier is
\* tracked where a polling loop reads it (address).
OnResult(i, uid, verificationResult, hasProofs) ==
    /\ reqs[i].stage = "open"
    /\ variant = "address" => ~hasProofs
    /\ requestInProgress' = SetState(requestInProgress, FALSE)
    /\ uniqueIdentifier' =
           IF variant = "donation" THEN uniqueIdentifier ELSE SetState(uniqueIdentifier, uid)
    /\ IF hasProofs
       THEN /\ reqs' = [reqs EXCEPT ![i].stage = "formatting",
                                    ![i].verified = verificationResult]
            /\ UNCHANGED <<txStatus, txHash>>
       ELSE SendPart(i, verificationResult, FALSE)
    /\ UNCHANGED <<notPage, variant, mounted, isPolling, pollingIntervalRef, created, clearCalls,
                   timerHash, inFlight, arbitrumMessage, receivedDonation, error,
                   isLoading, donationAmount, lockedDonationAmountRef>>

\* formatProofsForContract settled (with data, or with undefined or an
\* exception, which are only logged): onResult goes on
FormatDone(i, contractProofData) ==
    /\ reqs[i].stage = "formatting"
    /\ SendPart(i, reqs[i].verified, contractProofData)
    /\ UNCHANGED <<notPage, variant, mounted, isPolling, pollingIntervalRef, created, clearCalls,
                   timerHash, inFlight, arbitrumMessage, receivedDonation, error,
                   requestInProgress, isLoading, donationAmount,
                   lockedDonationAmountRef, uniqueIdentifier>>

SentStatus(v) ==
    IF v = "donation" THEN <<"Your verified donation of N tokens has been submitted!">>
    ELSE <<"Verification data sent successfully to Aztec contract!">>

\* the fetch of /api/send-message settled: the rest of onResult
SendResponse(i, resp) ==
    /\ reqs[i].stage = "sending"
    /\ reqs' = [reqs EXCEPT ![i] = Free]
    /\ IF ~resp.threw /\ resp.ok /\ resp.success
       THEN /\ txHash' = SetState(txHash, resp.txHash)
            /\ StartPolling(resp.txHash, reqs[i].txHash, reqs[i].uid, SentStatus(variant))
       ELSE /\ txStatus' = SetState(txStatus, <<"Error: ", resp.error>>)
            /\ UNCHANGED <<isPolling, pollingIntervalRef, created, clearCalls,
                           timerHash, txHash>>
    /\ UNCHANGED <<notPage, variant, mounted, inFlight, arbitrumMessage, receivedDonation, error,
                   requestInProgress, isLoading, donationAmount,
                   lockedDonationAmountRef, uniqueIdentifier>>

OnReject(i) ==
    /\ reqs[i].stage = "open"
    /\ reqs' = [reqs EXCEPT ![i] = Free]
    /\ requestInProgress' = SetState(requestInProgress, FALSE)
    /\ isLoading' = SetState(isLoading, FALSE)
    /\ lockedDonationAmountRef' =
           IF variant = "donation" THEN NoLock ELSE lockedDonationAmountRef
    /\ UNCHANGED <<notPage, variant, mounted, isPolling, pollingIntervalRef, created, clearCalls,
                   timerHash, inFlight, txHash, txStatus, arbitrumMessage,
                   receivedDonation, error, donationAmount, uniqueIdentifier>>

OnError(i) ==
    /\ reqs[i].stage = "open"
    /\ reqs' = [reqs EXCEPT ![i] = Free]
    /\ requestInProgress' = SetState(requestInProgress, FALSE)
    /\ isLoading' = SetState(isLoading, FALSE)
    /\ lockedDonationAmountRef' =
           IF variant = "donation" THEN NoLock ELSE lockedDonationAmountRef
    /\ error' = SetState(error, "Failed to complete ZKPassport verification")
    /\ UNCHANGED <<notPage, variant, mounted, isPolling, pollingIntervalRef, created, clearCalls,
                   timerHash, inFlight, txHash, txStatus, arbitrumMessage,
                   receivedDonation, donationAmount, uniqueIdentifier>>

\* resetForNewDonation (its button shows once a donation was received or an
\* error is displayed)
ResetForNewDonation ==
    /\ mounted
    /\ variant = "donation"
    /\ receivedDonation # NoDonation \/ error # ""
    /\ donationAmount' = EmptyAmount
    /\ txHash' = << >>
    /\ txStatus' = << >>
    /\ receivedDonation' = NoDonation
    /\ isPolling' = FALSE
    /\ isLoading' = FALSE
    /\ error' = ""
    /\ requestInProgress' = FALSE
    /\ lockedDonationAmountRef' = NoLock
    /\ clearCalls' = ClearCurrent(clearCalls, pollingIntervalRef, "reset")
    /\ pollingIntervalRef' = NoTimer
    /\ UNCHANGED <<notPage, variant, mounted, created, timerHash, inFlight, arbitrumMessage,
                   uniqueIdentifier, reqs>>

\* the amount field's onChange (the field is disabled while a request runs)
SetDonationAmount(a) ==
    /\ mounted
    /\ variant = "donation"
    /\ ~requestInProgress
    /\ ~isLoading
    /\ a # donationAmount
    /\ donationAmount' = a
    /\ UNCHANGED <<notPage, variant, mounted, isPolling, pollingIntervalRef, created, clearCalls,
                   timerHash, inFlight, txHash, txStatus, arbitrumMessage,
                   receivedDonation, error, requestInProgress, isLoading,
                   lockedDonationAmountRef, uniqueIdentifier, reqs>>

\* the component unmounts: the cleanup of the polling effect runs (the ref
\* keeps the handle); callbacks already registered and fetches already issued
\* still run afterwards
Unmount ==
    /\ mounted
    /\ mounted' = FALSE
    /\ clearCalls' = ClearCurrent(clearCalls, pollingIntervalRef, "unmount")
    /\ UNCHANGED <<notPage, variant, isPolling, pollingIntervalRef, created, timerHash,
                   inFlight, txHash, txStatus, arbitrumMessage, receivedDonation,
                   error, requestInProgress, isLoading, donationAmount,
                   lockedDonationAmountRef, uniqueIdentifier, reqs>>

\* the page after its first render and mount effects
PageInit ==
    /\ variant \in Variants
    /\ mounted = TRUE
    /\ isPolling = FALSE
    /\ pollingIntervalRef = NoTimer
    /\ created = 0
    /\ clearCalls = [h \in Handles |-> << >>]
    /\ timerHash = [h \in Handles |-> << >>]
    /\ inFlight = [h \in Handles |-> 0]
    /\ txHash = << >>
    /\ txStatus = << >>
    /\ arbitrumMessage = NullValue
    /\ receivedDonation = NoDonation
    /\ error = ""
    /\ requestInProgress = FALSE
    /\ isLoading = FALSE
    /\ donationAmount = EmptyAmount
    /\ lockedDonationAmountRef = NoLock
    /\ uniqueIdentifier = << >>
    /\ reqs = [i \in Slots |-> Free]

PageNext ==
    \/ Unmount
    \/ CreateRequestClick
    \/ \E i \in Slots : CreateRequestOpened(i)
    \/ \E i \in Slots : CreateRequestFailed(i)
    \/ \E i \in Slots, uid \in ResultIds(variant), verified \in BOOLEAN,
          hasProofs \in BOOLEAN :
          OnResult(i, uid, verified, hasProofs)
    \/ \E i \in Slots, contractProofData \in BOOLEAN : FormatDone(i, contractProofData)
    \/ \E i \in Slots, resp \in SendResponses : SendResponse(i, resp)
    \/ \E i \in Slots : OnReject(i)
    \/ \E i \in Slots : OnError(i)
    \/ StartPollingClick
    \/ StopPollingClick
    \/ \E h \in Handles : Tick(h)
    \/ \E h \in Handles, r \in PollResponses(variant) : PollResponse(h, r)
    \/ ResetForNewDonation
    \/ \E a \in PollingAmountInputs : SetDonationAmount(a)


(***************************************************************************)
(* Part 2 (specification SpecGetMsg): one request to                       *)
(* POST /api/get-arbitrum-message, in the two versions of                  *)
(* packages/frontend/app/api/get-arbitrum-message/route.ts (lines 1-229    *)
(* and 230-426).  An action is the code between two awaits.                *)
(***************************************************************************)
\* a JSON value that is truthy and is not a string (a number)
NumberValue == <<"number">>

IsString(v) == v \notin {Undefined, NullValue, NumberValue}

\* s.padStart(n, c)
PadStart(s, n, c) == IF Len(s) >= n THEN s ELSE Repeat(c, n - Len(s)) \o s

HexDigitVal(c) ==
    CASE c \in DecDigits -> DigitVal(c)
      [] c \in {"a", "A"} -> 10 [] c \in {"b", "B"} -> 11
      [] c \in {"c", "C"} -> 12 [] c \in {"d", "D"} -> 13
      [] c \in {"e", "E"} -> 14 [] c \in {"f", "F"} -> 15

\* BigInt("0x...") of a hex string's digits
RECURSIVE HexToNat(_, _)
HexToNat(digits, acc) ==
    IF digits = << >> THEN acc
    ELSE HexToNat(Tail(digits), 16 * acc + HexDigitVal(Head(digits)))

DigitChars == <<"0", "1", "2", "3", "4", "5", "6", "7", "8", "9",
                "a", "b", "c", "d", "e", "f">>

\* n.toString(base), base 10 or 16
RECURSIVE NatToString(_, _)
NatToString(n, base) ==
    IF n < base THEN <<DigitChars[n + 1]>>
    ELSE NatToString(n \div base, base) \o <<DigitChars[(n % base) + 1]>>

\* to32ByteHex
to32ByteHex(hexString) ==
    LET hex == IF StartsWith(hexString, <<"0", "x">>)
               THEN SubSeq(hexString, 3, Len(hexString)) ELSE hexString
    IN  <<"0", "x">> \o PadStart(hex, 64, "0")

\* what ethers accepts as a bytes32 argument of encodeFunctionData, and decodes
\* as the uint256 result: "0x" and exactly 64 hex digits
IsBytes32(v) ==
    /\ IsString(v)
    /\ Len(v) = 66
    /\ StartsWith(v, <<"0", "x">>)
    /\ IsHexString(SubSeq(v, 3, Len(v)))

RouteVersions == {"v1", "v2"}

\* body.txHash: absent, "", a number, "0x1234", "1234", a full 32-byte hash,
\* 33 bytes, not hex
HASH_1234 == <<"0", "x", "1", "2", "3", "4">>
TxHashInputs ==
    {Undefined, << >>, NumberValue, HASH_1234, <<"1", "2", "3", "4">>,
     <<"0", "x">> \o Repeat("b", 64), <<"0", "x">> \o Repeat("b", 66),
     <<"0", "x", "z", "z">>}

\* body.address: absent, or the address the address-based loop sends
AddressInputs == {Undefined, DEFAULT_ADDRESS}

Throws == <<"throws">>
NotRead == <<"not read">>

\* provider.getCode: rejects, no code ("0x", ""), contract code
DEPLOYED_CODE == <<"0", "x", "6", "0", "8", "0">>
CodeResults == {Throws, <<"0", "x">>, << >>, DEPLOYED_CODE}

\* provider.call: rejects, null, "", "0x", 32 zero bytes, 42 as 32 bytes (in
\* lower and in upper case digits), one byte
RawResults ==
    {Throws, NullValue, << >>, <<"0", "x">>, ZERO32, MSG42,
     <<"0", "x">> \o Repeat("0", 62) \o <<"2", "A">>,
     <<"0", "x", "0", "1">>}

NoResponse ==
    [status |-> 0, success |-> FALSE, message |-> Undefined, parsedData |-> FALSE,
     amount |-> Undefined, error |-> "", txHash |-> Undefined]

ErrorResponse(status, text) ==
    [NoResponse EXCEPT !.status = status, !.error = text]

GmRespond(resp) ==
    /\ gmResponse' = resp
    /\ gmPc' = "done"

\* a mutation of NoData: the all-zero word is taken for data
NoDataButZero(raw) == ~Truthy(raw) \/ raw = <<"0", "x">>

\* !rawResult || rawResult === '0x' || rawResult === '0x000...0'
NoData(raw) == ~Truthy(raw) \/ raw = <<"0", "x">> \/ raw = ZERO32

\* the response to a result that decodes as uint256
DecodedResponse(version, hash, raw) ==
    LET amount == HexToNat(SubSeq(raw, 3, Len(raw)), 0)
    IN  [NoResponse EXCEPT
            !.status = 200, !.success = TRUE, !.txHash = hash,
            !.parsedData = TRUE,
            !.amount = NatToString(amount, 10),
            !.message = IF version = "v1" THEN raw
                        ELSE <<"0", "x">> \o PadStart(NatToString(amount, 16), 64, "0")]

\* the response to a result that does not decode: v1 parses it with BigInt and
\* falls back to "0", v2 answers without an amount
UndecodedResponse(version, hash, raw) ==
    LET digits == SubSeq(raw, 3, Len(raw))
        parses == StartsWith(raw, <<"0", "x">>) /\ digits # << >> /\ IsHexString(digits)
    IN  [NoResponse EXCEPT
            !.status = 200, !.success = TRUE, !.txHash = hash,
            !.parsedData = TRUE, !.message = raw,
            !.amount = IF version = "v2" THEN Undefined
                       ELSE IF parses THEN NatToString(HexToNat(digits, 0), 10)
                       ELSE <<"0">>]

\* from request.json() to the first await (provider.getCode)
GmReceive ==
    /\ gmPc = "received"
    /\ IF ~Truthy(gmBody.txHash)
       THEN /\ GmRespond(ErrorResponse(400, "Transaction hash is required"))
            /\ UNCHANGED gmTxHash
       ELSE IF ~IsString(gmBody.txHash)
       THEN \* txHash.startsWith is not a function
            /\ GmRespond(ErrorResponse(400, "Invalid transaction hash format"))
            /\ UNCHANGED gmTxHash
       ELSE LET prefixed == IF StartsWith(gmBody.txHash, <<"0", "x">>)
                            THEN gmBody.txHash
                            ELSE <<"0", "x">> \o gmBody.txHash
            IN  /\ gmTxHash' = IF gmVersion = "v1" THEN prefixed
                               ELSE to32ByteHex(prefixed)
                /\ gmPc' = "getCode"
                /\ UNCHANGED gmResponse
    /\ UNCHANGED <<notGetMsg, gmVersion, gmBody, gmCallArg, gmCode, gmRaw>>

\* provider.getCode settled; encodeFunctionData; up to the await of provider.call
GmGetCode(code) ==
    /\ gmPc = "getCode"
    /\ gmCode' = code
    /\ LET arg == IF gmVersion = "v1" THEN to32ByteHex(gmTxHash) ELSE gmTxHash
       IN  IF code = Throws
           THEN /\ GmRespond(ErrorResponse(500, "Contract error: could not detect network"))
                /\ UNCHANGED gmCallArg
           ELSE IF code = <<"0", "x">> \/ ~Truthy(code)
           THEN /\ GmRespond(ErrorResponse(400, "No contract deployed at the specified address"))
                /\ UNCHANGED gmCallArg
           ELSE IF ~IsBytes32(arg)
           THEN /\ GmRespond(ErrorResponse(500, "Contract error: invalid BytesLike value"))
                /\ UNCHANGED gmCallArg
           ELSE /\ gmCallArg' = arg
                /\ gmPc' = "call"
                /\ UNCHANGED gmResponse
    /\ UNCHANGED <<notGetMsg, gmVersion, gmBody, gmTxHash, gmRaw>>

\* provider.call settled: the rest of the handler
GmCall(raw) ==
    /\ gmPc = "call"
    /\ gmRaw' = raw
    /\ IF raw = Throws
       THEN GmRespond([ErrorResponse(500, "Low-level call error: execution reverted")
                          EXCEPT !.txHash = gmTxHash])
       ELSE IF NoData(raw)
       THEN GmRespond([NoResponse EXCEPT !.status = 200, !.success = TRUE,
                                         !.message = NullValue, !.txHash = gmTxHash])
       ELSE IF IsBytes32(raw)
       THEN GmRespond(DecodedResponse(gmVersion, gmTxHash, raw))
       ELSE GmRespond(UndecodedResponse(gmVersion, gmTxHash, raw))
    /\ UNCHANGED <<notGetMsg, gmVersion, gmBody, gmTxHash, gmCallArg, gmCode>>

GetMsgInit ==
    /\ gmVersion \in RouteVersions
    /\ gmBody \in [txHash : TxHashInputs, address : AddressInputs]
    /\ gmPc = "received"
    /\ gmTxHash = Undefined
    /\ gmCallArg = Undefined
    /\ gmCode = NotRead
    /\ gmRaw = NotRead
    /\ gmResponse = NoResponse

\* the route is not called
GetMsgIdle ==
    /\ gmVersion = "v1"
    /\ gmBody = [txHash |-> Undefined, address |-> Undefined]
    /\ gmPc = "idle"
    /\ gmTxHash = Undefined
    /\ gmCallArg = Undefined
    /\ gmCode = NotRead
    /\ gmRaw = NotRead
    /\ gmResponse = NoResponse

GetMsgNext ==
    \/ GmReceive
    \/ \E code \in CodeResults : GmGetCode(code)
    \/ \E raw \in RawResults : GmCall(raw)


(***************************************************************************)
(* Part 3 (specification SpecSend): one request to POST /api/send-message  *)
(* (packages/frontend/app/api/send-message/route.ts).                      *)
(***************************************************************************)
\* lines the script may print
MaxLines == 2

\* The script's output is a sequence of chunks: a text, possibly followed by a
\* "0x..." hex literal and a closing text.  The chunks below are what the
\* scripts of the repository print, and the spellings the route looks for.
Chunk(pre, hex, post) == [pre |-> pre, hex |-> hex, post |-> post]

TX_HASH_64 == <<"0", "x">> \o Repeat("1", 62) \o <<"a", "b">>

OutputChunks ==
    {Chunk("Calling emitter verify and publish...", << >>, ""),
     Chunk("Calling emitter verify_and_publish...", << >>, ""),
     Chunk("blockNumber: 12", << >>, ""),
     Chunk("Block number: 12", << >>, ""),
     Chunk("Transaction sent! Hash: TxHash { hash: Fr<", TX_HASH_64, "> }"),
     Chunk("Transaction sent! Hash: ", <<"0", "x", "a", "b", "1", "2">>, ""),
     Chunk("msgHash: ", <<"0", "x">> \o Repeat("2", 64), ""),
     Chunk("token: ", <<"0", "x">> \o Repeat("3", 40), "")}

RECURSIVE SeqsUpTo(_, _)
SeqsUpTo(S, n) ==
    IF n = 0 THEN {<< >>}
    ELSE LET shorter == SeqsUpTo(S, n - 1)
         IN  shorter \cup {Append(q, x) : q \in shorter, x \in S}

Stdouts == SeqsUpTo(OutputChunks, MaxLines)

\* 0x[0-9a-fA-F]+ at the chunk's hex literal
IsHexLiteral(hex) ==
    /\ Len(hex) > 2
    /\ StartsWith(hex, <<"0", "x">>)
    /\ IsHexString(SubSeq(hex, 3, Len(hex)))

\* /hash: Fr<(0x[0-9a-fA-F]+)>/
MatchesNew(c) ==
    /\ c.pre = "Transaction sent! Hash: TxHash { hash: Fr<"
    /\ IsHexLiteral(c.hex)
    /\ c.post = "> }"

\* /Transaction sent! Hash: (0x[0-9a-fA-F]+)/
MatchesOld(c) == c.pre = "Transaction sent! Hash: " /\ IsHexLiteral(c.hex)

\* /(0x[0-9a-fA-F]{64})/
MatchesAny(c) == IsHexLiteral(c.hex) /\ Len(c.hex) >= 66

\* stdout.match(re): the place of the first match, 0 when there is none
FirstMatch(hits) ==
    IF hits = {} THEN 0 ELSE CHOOSE i \in hits : \A j \in hits : i <= j

\* stdout.includes(text)
Includes(stdout, texts) == \E i \in DOMAIN stdout : stdout[i].pre \in texts

\* the hash the route extracts (the capture group of the first pattern that
\* matches), undefined when none of its three patterns match
ExtractTxHash(stdout) ==
    LET new == FirstMatch({i \in DOMAIN stdout : MatchesNew(stdout[i])})
        old == FirstMatch({i \in DOMAIN stdout : MatchesOld(stdout[i])})
        any == FirstMatch({i \in DOMAIN stdout : MatchesAny(stdout[i])})
    IN  IF new # 0 THEN stdout[new].hex
        ELSE IF old # 0 THEN stdout[old].hex
        ELSE IF any # 0 THEN SubSeq(stdout[any].hex, 1, 66)
        ELSE Undefined

\* the script "completed successfully" in the route's eyes
LooksCompleted(stdout) ==
    /\ Includes(stdout, {"Calling emitter verify and publish..."})
    /\ Includes(stdout, {"blockNumber: 12"})

NoSendResponse ==
    [status |-> 0, success |-> FALSE, txHash |-> Undefined, error |-> "",
     message |-> "", hasZKProofs |-> FALSE]

SendBodies ==
    {[parses |-> FALSE, keys |-> FALSE, formattedProofs |-> FALSE],
     [parses |-> TRUE, keys |-> FALSE, formattedProofs |-> FALSE],
     [parses |-> TRUE, keys |-> TRUE, formattedProofs |-> FALSE],
     [parses |-> TRUE, keys |-> TRUE, formattedProofs |-> TRUE]}

SmRespond(resp) ==
    /\ smResponse' = resp
    /\ smPc' = "done"

\* from request.json() to the await of the script
SmReceive ==
    /\ smPc = "received"
    /\ IF ~(smBody.parses /\ smBody.keys)
       THEN SmRespond([NoSendResponse EXCEPT
                          !.status = 400, !.error = "No verification data provided"])
       ELSE IF ~smScriptExists
       THEN SmRespond([NoSendResponse EXCEPT
                          !.status = 500, !.error = "Script not found at path"])
       ELSE smPc' = "exec" /\ UNCHANGED smResponse
    /\ UNCHANGED <<notSend, smBody, smScriptExists, smStdout>>

\* the script ended with exit code 0 and printed stdout
SmExecDone(stdout) ==
    /\ smPc = "exec"
    /\ smStdout' = stdout
    /\ LET hash == ExtractTxHash(stdout)
       IN  IF Truthy(hash)
           THEN SmRespond([NoSendResponse EXCEPT
                   !.status = 200, !.success = TRUE, !.txHash = hash,
                   !.message = "sent to contract successfully",
                   !.hasZKProofs = smBody.formattedProofs])
           ELSE IF LooksCompleted(stdout)
           THEN SmRespond([NoSendResponse EXCEPT
                   !.status = 200, !.success = TRUE,
                   !.message = "sent successfully, but transaction hash could not be extracted",
                   !.hasZKProofs = smBody.formattedProofs])
           ELSE SmRespond([NoSendResponse EXCEPT
                   !.status = 500,
                   !.error = "Could not extract transaction hash from output",
                   !.hasZKProofs = smBody.formattedProofs])
    /\ UNCHANGED <<notSend, smBody, smScriptExists>>

\* the script failed (exit code, timeout, spawn error): execPromise rejects
SmExecFailed ==
    /\ smPc = "exec"
    /\ SmRespond([NoSendResponse EXCEPT
                     !.status = 500, !.error = "Command failed",
                     !.hasZKProofs = smBody.formattedProofs])
    /\ UNCHANGED <<notSend, smBody, smScriptExists, smStdout>>

SendInit ==
    /\ smBody \in SendBodies
    /\ smScriptExists \in BOOLEAN
    /\ smPc = "received"
    /\ smStdout = << >>
    /\ smResponse = NoSendResponse

\* the route is not called
SendIdle ==
    /\ smBody = [parses |-> FALSE, keys |-> FALSE, formattedProofs |-> FALSE]
    /\ smScriptExists = TRUE
    /\ smPc = "idle"
    /\ smStdout = << >>
    /\ smResponse = NoSendResponse

SendNext ==
    \/ SmReceive
    \/ \E stdout \in Stdouts : SmExecDone(stdout)
    \/ SmExecFailed


(***************************************************************************)
(* Part 4 (specification SpecFormat): one call of                          *)
(* ZKPassportHelper.formatProofsForContract                                *)
(* (packages/frontend/app/ZKPassportHelper.tsx).                           *)
(***************************************************************************)
PROOF_SIZE == 456
VKEY_SIZE == 128
REQUIRED_PROOFS == 6

Roles == 1..6
\* the circuits taken from F down to A
RoleLettersBackwards == <<"F", "E", "D", "C", "B", "A">>

RoleLetters == <<"A", "B", "C", "D", "E", "F">>

\* ZKPASSPORT_CONFIG.PROOF_KEYWORDS
PROOF_KEYWORDS ==
    <<<<"s", "i", "g", "_", "c", "h", "e", "c", "k", "_", "d", "s", "c">>,
      <<"s", "i", "g", "_", "c", "h", "e", "c", "k", "_", "i", "d", "_", "d",
       "a", "t", "a">>,
      <<"d", "a", "t", "a", "_", "c", "h", "e", "c", "k", "_", "i", "n", "t",
       "e", "g", "r", "i", "t", "y">>,
      <<"i", "n", "c", "l", "u", "s", "i", "o", "n", "_", "c", "h", "e", "c",
       "k", "_", "i", "s", "s", "u", "i", "n", "g", "_", "c", "o", "u", "n",
       "t", "r", "y">>,
      <<"d", "i", "s", "c", "l", "o", "s", "e", "_", "b", "y", "t", "e", "s">>,
      <<"c", "o", "m", "p", "a", "r", "e", "_", "a", "g", "e">>>>

UpperLetters == <<"A", "B", "C", "D", "E", "F", "G", "H", "I", "J", "K", "L", "M",
                  "N", "O", "P", "Q", "R", "S", "T", "U", "V", "W", "X", "Y", "Z">>
LowerLetters == <<"a", "b", "c", "d", "e", "f", "g", "h", "i", "j", "k", "l", "m",
                  "n", "o", "p", "q", "r", "s", "t", "u", "v", "w", "x", "y", "z">>

\* s.toLowerCase()
ToLowerChar(c) ==
    IF \E k \in DOMAIN UpperLetters : UpperLetters[k] = c
    THEN LowerLetters[CHOOSE k \in DOMAIN UpperLetters : UpperLetters[k] = c]
    ELSE c

ToLowerCase(str) == [k \in DOMAIN str |-> ToLowerChar(str[k])]

\* str.includes(sub)
StrIncludes(str, sub) ==
    \E k \in 1..(Len(str) - Len(sub) + 1) : SubSeq(str, k, k + Len(sub) - 1) = sub

\* names of proof artifacts
NAME_A ==
    <<"s", "i", "g", "_", "c", "h", "e", "c", "k", "_", "d", "s", "c", "_",
      "r", "s", "a">>
NAME_A_UPPER ==
    <<"S", "I", "G", "_", "C", "H", "E", "C", "K", "_", "D", "S", "C", "_",
      "E", "C", "D", "S", "A">>
NAME_B ==
    <<"s", "i", "g", "_", "c", "h", "e", "c", "k", "_", "i", "d", "_", "d",
      "a", "t", "a", "_", "r", "s", "a">>
NAME_C ==
    <<"d", "a", "t", "a", "_", "c", "h", "e", "c", "k", "_", "i", "n", "t",
      "e", "g", "r", "i", "t", "y", "_", "s", "h", "a", "2", "5", "6">>
NAME_D ==
    <<"i", "n", "c", "l", "u", "s", "i", "o", "n", "_", "c", "h", "e", "c",
      "k", "_", "i", "s", "s", "u", "i", "n", "g", "_", "c", "o", "u", "n",
      "t", "r", "y", "_", "e", "v", "m">>
NAME_E ==
    <<"d", "i", "s", "c", "l", "o", "s", "e", "_", "b", "y", "t", "e", "s",
      "_", "e", "v", "m">>
NAME_F ==
    <<"c", "o", "m", "p", "a", "r", "e", "_", "a", "g", "e", "_", "e", "v",
      "m">>
NAME_X ==
    <<"b", "i", "n", "d", "_", "e", "v", "m">>
\* a name that contains the keywords of role F and of role A
NAME_FA == PROOF_KEYWORDS[6] \o <<"_">> \o PROOF_KEYWORDS[1]

\* p.name?.toLowerCase().includes(keyword.toLowerCase())
NameIncludes(name, keyword) ==
    /\ name \notin {Undefined, NullValue}
    /\ StrIncludes(ToLowerCase(name), ToLowerCase(keyword))

\* NameIncludes for the names above and the role keywords, worked out once
PoolNames ==
    {NAME_A, NAME_A_UPPER, NAME_B, NAME_C, NAME_D, NAME_E, NAME_F, NAME_X, NAME_FA,
     Undefined}

KeywordsIn ==
    [name \in PoolNames |-> {r \in Roles : NameIncludes(name, PROOF_KEYWORDS[r])}]

NameMatches(name, keyword) ==
    IF name \in PoolNames /\ \E r \in Roles : PROOF_KEYWORDS[r] = keyword
    THEN \E r \in KeywordsIn[name] : PROOF_KEYWORDS[r] = keyword
    ELSE NameIncludes(name, keyword)

\* a proof artifact; complete says that vkeyHash, version and proof are present
Artifact(name, complete) == [name |-> name, complete |-> complete]

\* the artifacts an input is drawn from, in this order
ArtifactPool ==
    <<Artifact(NAME_A, TRUE), Artifact(NAME_A_UPPER, TRUE), Artifact(NAME_B, TRUE),
      Artifact(NAME_C, TRUE), Artifact(NAME_D, TRUE), Artifact(NAME_E, TRUE),
      Artifact(NAME_F, TRUE), Artifact(NAME_F, FALSE), Artifact(NAME_X, TRUE),
      Artifact(Undefined, TRUE)>>

\* the artifacts of the pool at the positions in chosen, in pool order
RECURSIVE PickFrom(_, _, _)
PickFrom(pool, chosen, k) ==
    IF k > Len(pool) THEN << >>
    ELSE (IF k \in chosen THEN <<pool[k]>> ELSE << >>) \o PickFrom(pool, chosen, k + 1)

Pick(chosen, k) == PickFrom(ArtifactPool, chosen, k)

\* every selection from a pool, in pool order
ProofsOf(pool) == {PickFrom(pool, chosen, 1) : chosen \in SUBSET DOMAIN pool}

Reverse(q) == [k \in DOMAIN q |-> q[Len(q) + 1 - k]]

\* the inputs: every selection from the pool, in pool order and reversed
ProofInputs ==
    {Pick(chosen, 1) : chosen \in SUBSET DOMAIN ArtifactPool}
        \cup {Reverse(Pick(chosen, 1)) : chosen \in SUBSET DOMAIN ArtifactPool}

\* proofs.find(p => ...): the position of the first artifact whose name matches
\* the keyword, 0 when there is none
FindProof(proofs, keyword) ==
    LET hits == {k \in DOMAIN proofs : NameMatches(proofs[k].name, keyword)}
    IN  IF hits = {} THEN 0 ELSE CHOOSE k \in hits : \A j \in hits : k <= j

\* a lookup that takes the artifacts in arrival order
takeProofsInArrivalOrder(proofs) == [r \in Roles |-> IF r <= Len(proofs) THEN r ELSE 0]

\* findProofsByKeywords
findProofsByKeywords(proofs) == [r \in Roles |-> FindProof(proofs, PROOF_KEYWORDS[r])]

MissingMessages ==
    <<"- Missing DSC proof (Circuit A)", "- Missing ID Data proof (Circuit B)",
      "- Missing Integrity proof (Circuit C)", "- Missing Country proof (Circuit D)",
      "- Missing Disclosure proof (Circuit E)", "- Missing Age proof (Circuit F)">>

RECURSIVE MissingFrom(_, _)
MissingFrom(found, r) ==
    IF r > 6 THEN << >>
    ELSE (IF found[r] = 0 THEN <<MissingMessages[r]>> ELSE << >>)
             \o MissingFrom(found, r + 1)

\* a mutation of logMissingProofs: only the first missing role is reported
logFirstMissingProof(found) ==
    <<"Missing required proofs:",
      MissingMessages[CHOOSE r \in Roles :
                         found[r] = 0 /\ \A q \in Roles : found[q] = 0 => r <= q]>>

\* logMissingProofs: what it writes
logMissingProofs(found) == <<"Missing required proofs:">> \o MissingFrom(found, 1)

\* a mutation of WrongCount: only too few artifacts are refused
TooFewProofs(proofs) == Len(proofs) < REQUIRED_PROOFS

\* proofs.length !== 6
WrongCount(proofs) == Len(proofs) # REQUIRED_PROOFS

\* validateProofOrder of [proofA .. proofF]: the role detected for an artifact
\* is the first keyword its name contains
DetectedRole(name) ==
    LET hits == {r \in Roles : NameMatches(name, PROOF_KEYWORDS[r])}
    IN  IF hits = {} THEN 0 ELSE CHOOSE r \in hits : \A q \in hits : r <= q

validateProofOrder(proofs, found) ==
    \A r \in Roles : DetectedRole(proofs[found[r]].name) = r

FmtReturn(value) ==
    /\ fmtReturn' = value
    /\ fmtPc' = "done"

\* an Error object, by what its message says: the kind of failure, the circuit
\* named, the expected length(s) and the actual length
NoError == [kind |-> "none", circuit |-> "", expected |-> << >>, got |-> 0]

MakeError(kind, circuit, expected, got) ==
    [kind |-> kind, circuit |-> circuit, expected |-> expected, got |-> got]

\* logError(context, error)
Logged(context, err) == [context |-> context, error |-> err]

\* a catch block that lets the error escape to the caller
Rethrow(err) == "threw"

\* the catch block of formatProofsForContract: what the call settles with
CatchAll(err) == "undefined"

\* formatProofsForContract's catch block
FmtCaught(logged, err) ==
    /\ fmtErrors' = fmtErrors \o logged \o <<Logged(<<"formatProofsForContract">>, err)>>
    /\ fmtLog' = fmtLog \o [k \in DOMAIN logged |-> "Error in a callee:"]
                        \o <<"Error in formatProofsForContract:">>
    /\ FmtReturn(CatchAll(err))

\* formatProofsForContract up to its first await (getCircuitManifest)
FmtStart ==
    /\ fmtPc = "start"
    /\ IF WrongCount(fmtProofs)
       THEN /\ fmtLog' = <<"Incorrect number of proofs: expected 6, got N">>
            /\ FmtReturn("undefined")
            /\ UNCHANGED <<fmtFound, fmtFetches>>
       ELSE LET found == findProofsByKeywords(fmtProofs)
            IN  /\ fmtFound' = found
                /\ IF \E r \in Roles : found[r] = 0
                   THEN /\ fmtLog' = logMissingProofs(found)
                        /\ FmtReturn("undefined")
                        /\ UNCHANGED fmtFetches
                   ELSE /\ fmtLog' =
                              IF validateProofOrder(fmtProofs, found) THEN << >>
                              ELSE <<"Proofs are not in the correct order.">>
                        /\ fmtFetches' = <<"manifest">>
                        /\ fmtPc' = "manifest"
                        /\ UNCHANGED fmtReturn
    /\ UNCHANGED <<notFormat, fmtProofs, fmtNext, fmtFormatted, fmtErrors,
                   circuitManifest, fmtAnswers, fmtFirst>>

\* getCircuitManifest settled: the registry answers a lookup it has answered
\* before as it did then; this.circuitManifest is assigned when it resolves
FmtManifest(ok) ==
    /\ fmtPc = "manifest"
    /\ fmtAnswers.manifest \in {<< >>, <<ok>>}
    /\ fmtAnswers' = [fmtAnswers EXCEPT !.manifest = <<ok>>]
    /\ IF ok
       THEN /\ fmtPc' = "circuits"
            /\ circuitManifest' = "fetched"
            /\ UNCHANGED <<fmtLog, fmtReturn, fmtErrors>>
       ELSE /\ FmtCaught(<< >>, MakeError("Manifest request failed", "", << >>, 0))
            /\ UNCHANGED circuitManifest
    /\ UNCHANGED <<notFormat, fmtProofs, fmtNext, fmtFound, fmtFetches, fmtFormatted,
                   fmtFirst>>

\* validateProofData
ValidProofData(vkeyLen, proofLen, inputsLen, commitmentsLen) ==
    /\ vkeyLen = VKEY_SIZE
    /\ proofLen = PROOF_SIZE
    /\ inputsLen \in {2, 5, 10}
    /\ commitmentsLen = 2

\* a validateProofData that blames the verification key for every failure
ValidationErrorBlamesVkey(vkeyLen, proofLen, inputsLen, commitmentsLen, circuit) ==
    IF ValidProofData(vkeyLen, proofLen, inputsLen, commitmentsLen) THEN NoError
    ELSE MakeError("Invalid vkey size", circuit, <<VKEY_SIZE>>, vkeyLen)

\* validateProofData: the error it throws (the first check that fails)
ValidationError(vkeyLen, proofLen, inputsLen, commitmentsLen, circuit) ==
    IF ValidProofData(vkeyLen, proofLen, inputsLen, commitmentsLen) THEN NoError
    ELSE IF vkeyLen # VKEY_SIZE
    THEN MakeError("Invalid vkey size", circuit, <<VKEY_SIZE>>, vkeyLen)
    ELSE IF proofLen # PROOF_SIZE
    THEN MakeError("Invalid proof size", circuit, <<PROOF_SIZE>>, proofLen)
    ELSE IF inputsLen \notin {2, 5, 10}
    THEN MakeError("Invalid public inputs size", circuit, <<2, 5, 10>>, inputsLen)
    ELSE MakeError("Invalid commitments size", circuit, <<2>>, commitmentsLen)

\* throw new Error(`Failed to format SubCircuit${circuitType}: Invalid or missing data`)
FormatError(circuit) == MakeError("Failed to format SubCircuit", circuit, << >>, 0)

\* the lengths the registry and the proof decoder may come back with
VkeyLengths == {0, VKEY_SIZE - 1, VKEY_SIZE}
ProofLengths == {PROOF_SIZE, PROOF_SIZE + 1}
InputLengths == {2, 3, 5, 10}

\* the two commitments extractCommitments reads from a proof's public inputs:
\* <<root, commitment>> for A, <<commitment in, commitment out>> for B and C,
\* <<commitment in, nullifier>> for D, E and F; << >> when the extraction throws
CommitmentPairs == {<<1, 1>>, <<1, 2>>}

\* what one circuit's proof decodes to and the registry answers with
NominalAnswer ==
    [vkey |-> VKEY_SIZE, proof |-> PROOF_SIZE, inputs |-> 5, commitments |-> <<1, 1>>]

ValidAnswers ==
    {[NominalAnswer EXCEPT !.inputs = i] : i \in InputLengths \cap {2, 5, 10}}
        \cup {[NominalAnswer EXCEPT !.commitments = c] : c \in CommitmentPairs}

FaultyAnswers ==
    {[NominalAnswer EXCEPT !.vkey = v] : v \in VkeyLengths \ {VKEY_SIZE}}
        \cup {[NominalAnswer EXCEPT !.proof = n] : n \in ProofLengths \ {PROOF_SIZE}}
        \cup {[NominalAnswer EXCEPT !.inputs = i] : i \in InputLengths \ {2, 5, 10}}
        \cup {[NominalAnswer EXCEPT !.vkey = VKEY_SIZE - 1, !.proof = PROOF_SIZE + 1],
              [NominalAnswer EXCEPT !.commitments = << >>]}

SubCircuitAnswers == ValidAnswers \cup FaultyAnswers

\* the error formatSubCircuit's try block ends with (NoError: it returns).
\* vkeyLen = 0: getCircuitVerificationKey returned undefined.
SubCircuitError(artifact, vkeyLen, proofLen, inputsLen, commitments, circuit) ==
    IF ~artifact.complete \/ vkeyLen = 0
    THEN MakeError("Failed to get verification key", "", << >>, 0)
    ELSE IF commitments = << >>
    THEN MakeError("Commitment extraction failed", "", << >>, 0)
    ELSE ValidationError(vkeyLen, proofLen, inputsLen, Len(commitments), circuit)

\* the registry answers getPackagedCircuit(name, manifest) as it answered it
\* before, and the same proof decodes to the same lengths and commitments
Replays(name, circuit, vkeyLen, proofLen, inputsLen, commitments) ==
    \A given \in fmtAnswers.circuits :
        given.name = name
        => /\ given.answer.vkey = vkeyLen
           /\ given.answer.proof = proofLen
           /\ given.answer.inputs = inputsLen
           /\ given.circuit = circuit => given.answer.commitments = commitments

\* formatSubCircuit for the next circuit of formatAllSubCircuits, and what
\* follows it when it was the last.  vkeyLen = 0: the registry has no key.
\* vkey_hash is BigInt(proofResult.vkeyHash), written as the artifact it is of.
FmtSubCircuit(vkeyLen, proofLen, inputsLen, commitments) ==
    /\ fmtPc = "circuits"
    /\ Replays(fmtProofs[fmtFound[fmtNext]].name, RoleLetters[fmtNext],
               vkeyLen, proofLen, inputsLen, commitments)
    /\ fmtAnswers' =
          [fmtAnswers EXCEPT !.circuits =
              @ \cup {[name |-> fmtProofs[fmtFound[fmtNext]].name,
                       circuit |-> RoleLetters[fmtNext],
                       answer |-> [vkey |-> vkeyLen, proof |-> proofLen,
                                   inputs |-> inputsLen, commitments |-> commitments]]}]
    /\ LET artifact == fmtProofs[fmtFound[fmtNext]]
           circuit == RoleLetters[fmtNext]
           formatted == [vkey |-> vkeyLen, proof |-> proofLen,
                         public_inputs |-> inputsLen, vkey_hash |-> artifact.name,
                         commitments |-> commitments]
           err == SubCircuitError(artifact,
                                  IF circuitManifest = "unset" THEN 0 ELSE vkeyLen,
                                  proofLen, inputsLen, commitments, circuit)
           \* validateProofResult throws inside getCircuitVerificationKey
           inner == IF artifact.complete THEN << >>
                    ELSE <<Logged(<<"getCircuitVerificationKey">>,
                                  MakeError("Missing required proof information",
                                            "", << >>, 0))>>
       IN  /\ fmtFetches' = IF artifact.complete
                            THEN Append(fmtFetches, circuit) ELSE fmtFetches
           /\ IF err # NoError
              THEN /\ FmtCaught(inner \o <<Logged(<<"formatSubCircuit", circuit>>, err)>>,
                                FormatError(circuit))
                   /\ UNCHANGED <<fmtFormatted, fmtNext>>
              ELSE /\ fmtFormatted' = Append(fmtFormatted, formatted)
                   /\ UNCHANGED <<fmtLog, fmtErrors>>
                   /\ IF fmtNext = 6
                      THEN FmtReturn("data") /\ UNCHANGED fmtNext
                      ELSE fmtNext' = fmtNext + 1 /\ UNCHANGED <<fmtPc, fmtReturn>>
    /\ UNCHANGED <<notFormat, fmtProofs, fmtFound, circuitManifest, fmtFirst>>

\* results kept in a static list that every call appends to
ResultsOfLastCall == fmtFormatted

\* the results of a call that is starting: formatAllSubCircuits keeps them in
\* local constants
NewCallResults == << >>

\* the arrival orders of a set of n artifacts that are tried: the rotations of
\* the given order and their reversals
Orders(n) ==
    {[k \in 1..n |-> ((k + d - 1) % n) + 1] : d \in 0..(n - 1)}
        \cup {[k \in 1..n |-> ((n - k + d) % n) + 1] : d \in 0..(n - 1)}

Reordered(proofs, order) == [k \in DOMAIN proofs |-> proofs[order[k]]]

\* formatProofsForContract is called once more, with the same artifacts in the
\* given arrival order, after the call before has settled
FmtCallAgain(order) ==
    /\ fmtPc = "done"
    /\ fmtFirst = << >>
    /\ fmtFirst' = <<[proofs |-> fmtProofs, return |-> fmtReturn,
                      formatted |-> fmtFormatted]>>
    /\ fmtProofs' = Reordered(fmtProofs, order)
    /\ fmtPc' = "start"
    /\ fmtNext' = 1
    /\ fmtFound' = [r \in Roles |-> 0]
    /\ fmtLog' = << >>
    /\ fmtFetches' = << >>
    /\ fmtFormatted' = NewCallResults
    /\ fmtReturn' = "pending"
    /\ fmtErrors' = << >>
    /\ UNCHANGED <<notFormat, circuitManifest, fmtAnswers>>

NoAnswers == [manifest |-> << >>, circuits |-> {}]

FormatInit ==
    /\ fmtProofs \in ProofInputs
    /\ fmtPc = "start"
    /\ fmtNext = 1
    /\ fmtFound = [r \in Roles |-> 0]
    /\ fmtLog = << >>
    /\ fmtFetches = << >>
    /\ fmtFormatted = << >>
    /\ fmtReturn = "pending"
    /\ fmtErrors = << >>
    /\ circuitManifest = "unset"
    /\ fmtAnswers = NoAnswers
    /\ fmtFirst = << >>

\* the formatter is not called
FormatIdle ==
    /\ fmtProofs = << >>
    /\ fmtPc = "idle"
    /\ fmtNext = 1
    /\ fmtFound = [r \in Roles |-> 0]
    /\ fmtLog = << >>
    /\ fmtFetches = << >>
    /\ fmtFormatted = << >>
    /\ fmtReturn = "pending"
    /\ fmtErrors = << >>
    /\ circuitManifest = "unset"
    /\ fmtAnswers = NoAnswers
    /\ fmtFirst = << >>

FormatNext ==
    \/ FmtStart
    \/ \E ok \in BOOLEAN : FmtManifest(ok)
    \/ \E a \in SubCircuitAnswers :
          FmtSubCircuit(a.vkey, a.proof, a.inputs, a.commitments)

AgainPool ==
    <<Artifact(NAME_A, TRUE), Artifact(NAME_A_UPPER, TRUE), Artifact(NAME_B, TRUE),
      Artifact(NAME_C, TRUE), Artifact(NAME_D, TRUE), Artifact(NAME_E, TRUE),
      Artifact(NAME_F, TRUE), Artifact(NAME_FA, TRUE), Artifact(NAME_X, TRUE)>>

\* the inputs of two calls in a row: every set of 6 artifacts of the pool
AgainInputs ==
    {proofs \in ProofsOf(AgainPool) : Len(proofs) = REQUIRED_PROOFS}

\* the answers tried when the call is repeated
AgainAnswers ==
    {NominalAnswer, [NominalAnswer EXCEPT !.commitments = <<1, 2>>],
     [NominalAnswer EXCEPT !.vkey = VKEY_SIZE - 1]}

AgainInit ==
    /\ fmtProofs \in AgainInputs
    /\ fmtPc = "start"
    /\ fmtNext = 1
    /\ fmtFound = [r \in Roles |-> 0]
    /\ fmtLog = << >>
    /\ fmtFetches = << >>
    /\ fmtFormatted = << >>
    /\ fmtReturn = "pending"
    /\ fmtErrors = << >>
    /\ circuitManifest = "unset"
    /\ fmtAnswers = NoAnswers
    /\ fmtFirst = << >>

AgainNext ==
    \/ FmtStart
    \/ \E ok \in BOOLEAN : FmtManifest(ok)
    \/ \E a \in AgainAnswers :
          FmtSubCircuit(a.vkey, a.proof, a.inputs, a.commitments)
    \/ \E order \in Orders(REQUIRED_PROOFS) : FmtCallAgain(order)

(***************************************************************************)
(* Part 5 (specification SpecScript): runs of the send-message script, one *)
(* after the other.  Two versions of the script are in the repository:     *)
(* contracts/send-message.mjs, which encodes the user's fields and uses a  *)
(* fixed token nonce, and an unnamed one, which keeps the nonce in         *)
(* nonce.json and sends no user fields.  A string is its code points.      *)
(***************************************************************************)
MaxRuns == 2

SendMessageMjs == "contracts/send-message.mjs"
NonceFileMjs == "unnamed/part_003"
ScriptVersions == {SendMessageMjs, NonceFileMjs}

\* new Uint8Array(31)
CHUNK_SIZE == 31
Zeros == [k \in 1..CHUNK_SIZE |-> 0]

\* TextEncoder.encode, for code points below 2048
Utf8(cp) == IF cp < 128 THEN <<cp>> ELSE <<192 + (cp \div 64), 128 + (cp % 64)>>

RECURSIVE Encode(_)
Encode(str) == IF str = << >> THEN << >> ELSE Utf8(Head(str)) \o Encode(Tail(str))

\* a conversion that neither pads nor cuts
encodeWhole(str, length) == Encode(str)

\* stringToUint8Array
stringToUint8Array(str, length) ==
    LET encoded == Encode(str)
    IN  [k \in 1..length |-> IF k <= Len(encoded) THEN encoded[k] ELSE 0]

\* targetVaultAddress
TargetVault(version) ==
    IF version = SendMessageMjs
    THEN <<"0", "x", "d", "6", "1", "1", "F", "1", "A", "F", "9", "D", "0",
         "5", "6", "f", "0", "0", "F", "4", "9", "C", "B", "0", "3", "6",
         "7", "5", "9", "D", "e", "2", "7", "5", "3", "E", "f", "A", "8",
         "2", "c", "2">>
    ELSE <<"0", "x", "0", "0", "9", "c", "b", "B", "8", "f", "9", "1", "d",
         "3", "9", "2", "8", "5", "6", "C", "b", "8", "8", "0", "d", "6",
         "7", "c", "8", "0", "6", "A", "a", "7", "3", "1", "E", "3", "d",
         "6", "8", "6">>

\* hexAddressToUint8Array; << >> when it throws
hexAddressToUint8Array(hexAddress) ==
    LET hex == IF StartsWith(hexAddress, <<"0", "x">>)
               THEN SubSeq(hexAddress, 3, Len(hexAddress)) ELSE hexAddress
    IN  IF Len(hex) # 40 THEN << >>
        ELSE [k \in 1..CHUNK_SIZE |->
                 IF k <= 20
                 THEN 16 * HexDigitVal(hex[2 * k - 1]) + HexDigitVal(hex[2 * k])
                 ELSE 0]

ARB_CHAIN_ID == 10004

\* chainIdToUint8Array
chainIdToUint8Array(chainId) ==
    [k \in 1..CHUNK_SIZE |->
        CASE k = 1 -> chainId % 256
          [] k = 2 -> (chainId \div 256) % 256
          [] k = CHUNK_SIZE -> 2
          [] OTHER -> 0]

\* verification data: null, or the fields the page passes on.  A field that
\* is absent and one that is the empty string are both << >>; a flag is
\* "undefined", "true" or "false".
NullData ==
    [isNull |-> TRUE, firstName |-> << >>, documentType |-> << >>,
     isEUCitizen |-> "undefined", isOver18 |-> "undefined"]

FirstNames ==
    {<< >>, <<65, 108>>, <<233, 65>>} \cup
    {[k \in 1..n |-> 65] : n \in (CHUNK_SIZE - 1)..(CHUNK_SIZE + 1)}
DocumentTypes ==
    {<< >>, <<112, 97, 115, 115, 112, 111, 114, 116>>, [k \in 1..CHUNK_SIZE |-> 112]}
Flags == {"undefined", "true", "false"}

VerificationInputs ==
    {NullData} \cup
    [isNull : {FALSE}, firstName : FirstNames, documentType : DocumentTypes,
     isEUCitizen : Flags, isOver18 : Flags]

\* msgArrays[4][0] = verificationData.isEUCitizen ? 1 : 0, when not undefined
FlagArray(flag) ==
    IF flag = "undefined" THEN Zeros
    ELSE [Zeros EXCEPT ![1] = IF flag = "true" THEN 1 ELSE 0]

\* createMessageArrays: the five arrays for user data
UserArrays(version, data) ==
    IF data.isNull \/ version = NonceFileMjs
    THEN <<Zeros, Zeros, Zeros, Zeros, Zeros>>
    ELSE <<IF data.firstName # << >>
           THEN stringToUint8Array(data.firstName, CHUNK_SIZE) ELSE Zeros,
           IF data.documentType # << >>
           THEN stringToUint8Array(data.documentType, CHUNK_SIZE) ELSE Zeros,
           FlagArray(data.isEUCitizen),
           FlagArray(data.isOver18),
           Zeros>>

\* a payload that goes out without the debugging bytes
NotTagged(arrays) == arrays

\* msgArrays[i][30] = i + 1
Tagged(arrays) == [i \in DOMAIN arrays |-> [arrays[i] EXCEPT ![CHUNK_SIZE] = i]]

\* createMessageArrays
createMessageArrays(version, donationAddress, arbChainId, verificationData) ==
    Tagged(<<donationAddress, arbChainId>> \o UserArrays(version, verificationData))

\* nonce.json: whether the file is there, and its token_nonce (<< >>: no such
\* field)
NonceFile(exists, token_nonce) == [exists |-> exists, token_nonce |-> token_nonce]

NonceFiles ==
    {NonceFile(FALSE, << >>), NonceFile(TRUE, << >>), NonceFile(TRUE, <<0>>),
     NonceFile(TRUE, <<7>>)}

\* const token_nonce = 76n
FIXED_TOKEN_NONCE == 76

\* nonce_file_data.token_nonce ? BigInt(nonce_file_data.token_nonce) : 0n
StoredNonce(file) ==
    IF file.exists /\ file.token_nonce # << >> THEN file.token_nonce[1] ELSE 0

ThisRun == scRuns[Len(scRuns)]

\* process.exit(code), or the end of main
ScExit(code, file) ==
    /\ scPc' = "exited"
    /\ scRuns' = [scRuns EXCEPT ![Len(scRuns)].exit = code,
                                ![Len(scRuns)].after = file]

\* the script is started: main up to its first await
ScStart(data) ==
    /\ scPc \in {"ready", "exited"}
    /\ Len(scRuns) < MaxRuns
    /\ scData' = data
    /\ msgArrays' = << >>
    /\ scRuns' = Append(scRuns, [before |-> scNonceFile, nonce |-> << >>,
                                 uses |-> << >>, exit |-> -1, after |-> scNonceFile])
    /\ scPc' = "connecting"
    /\ UNCHANGED <<notScript, scVersion, scNonceFile>>

\* waitForPXE, getInitialTestAccountsWallets and TokenContract.at have settled;
\* when they resolved, the token nonce is determined
ScConnect(ok) ==
    /\ scPc = "connecting"
    /\ IF ~ok
       THEN ScExit(1, scNonceFile) /\ UNCHANGED scNonceFile
       ELSE IF scVersion = SendMessageMjs
       THEN /\ scRuns' = [scRuns EXCEPT ![Len(scRuns)].nonce = <<FIXED_TOKEN_NONCE>>]
            /\ scPc' = "witnesses"
            /\ UNCHANGED scNonceFile
       ELSE IF ~scNonceFile.exists
       THEN ScExit(1, scNonceFile) /\ UNCHANGED scNonceFile
       ELSE LET token_nonce == StoredNonce(scNonceFile) + 1
            IN  /\ scNonceFile' = NonceFile(TRUE, <<token_nonce>>)
                /\ scRuns' = [scRuns EXCEPT ![Len(scRuns)].nonce = <<token_nonce>>]
                /\ scPc' = "witnesses"
    /\ UNCHANGED <<notScript, scVersion, scData, msgArrays>>

\* the two authorization witnesses and Contract.at have settled; when they
\* resolved, the payload is built and verify_and_publish is sent
ScWitnesses(ok) ==
    /\ scPc = "witnesses"
    /\ IF ~ok
       THEN ScExit(1, scNonceFile) /\ UNCHANGED msgArrays
       ELSE /\ scRuns' = [scRuns EXCEPT ![Len(scRuns)].uses =
                             @ \o <<ThisRun.nonce[1], ThisRun.nonce[1]>>]
            /\ msgArrays' = createMessageArrays(
                                scVersion,
                                hexAddressToUint8Array(TargetVault(scVersion)),
                                chainIdToUint8Array(ARB_CHAIN_ID), scData)
            /\ scPc' = "calling"
    /\ UNCHANGED <<notScript, scVersion, scData, scNonceFile>>

\* verify_and_publish(...).send().wait() has settled
ScCall(ok) ==
    /\ scPc = "calling"
    /\ scPc' = "exited"
    /\ scRuns' = [scRuns EXCEPT ![Len(scRuns)].uses = Append(@, ThisRun.nonce[1]),
                                ![Len(scRuns)].exit = IF ok THEN 0 ELSE 1,
                                ![Len(scRuns)].after = scNonceFile]
    /\ UNCHANGED <<notScript, scVersion, scData, scNonceFile, msgArrays>>

ScriptInit ==
    /\ scVersion \in ScriptVersions
    /\ scPc = "ready"
    /\ scData = NullData
    /\ scNonceFile \in NonceFiles
    /\ scRuns = << >>
    /\ msgArrays = << >>

\* the script is not run
ScriptIdle ==
    /\ scVersion = SendMessageMjs
    /\ scPc = "idle"
    /\ scData = NullData
    /\ scNonceFile = NonceFile(FALSE, << >>)
    /\ scRuns = << >>
    /\ msgArrays = << >>

ScriptNext ==
    \/ \E data \in VerificationInputs : ScStart(data)
    \/ \E ok \in BOOLEAN : ScConnect(ok)
    \/ \E ok \in BOOLEAN : ScWitnesses(ok)
    \/ \E ok \in BOOLEAN : ScCall(ok)


(***************************************************************************)
(* Part 6 (specification SpecCalls): calls of                              *)
(* ZKPassportHelper.formatProofsForContract that overlap, as when the      *)
(* onResult handlers of two requests run at the same time.  The proofs of  *)
(* every call are well named and complete; what is followed is the static  *)
(* field circuitManifest, which here holds the version of the manifest     *)
(* stored in it.  An action is the code between two awaits.                *)
(***************************************************************************)
MaxCalls == 2
Calls == 1..MaxCalls

\* proofA.version of the proof sets
ManifestVersions == {"0.2.0", "0.3.0"}

IdleCall == [pc |-> "idle", version |-> "", used |-> << >>, result |-> "pending"]

\* the catch block of formatProofsForContract: the call returns undefined
CallCaught(c) == fmtCalls' = [fmtCalls EXCEPT ![c].pc = "done", ![c].result = "undefined"]

\* formatProofsForContract up to its await of getCircuitManifest
CallStart(c, version) ==
    /\ fmtCalls[c].pc = "idle"
    /\ fmtCalls' = [fmtCalls EXCEPT ![c].pc = "manifest", ![c].version = version]
    /\ UNCHANGED <<notCalls, circuitManifest>>

\* getCircuitManifest settled: the manifest is stored in the static field and
\* formatSubCircuit of circuit A runs up to its request of the packaged
\* circuit, made with the static field
CallManifest(c, ok) ==
    /\ fmtCalls[c].pc = "manifest"
    /\ IF ok
       THEN /\ circuitManifest' = fmtCalls[c].version
            /\ fmtCalls' = [fmtCalls EXCEPT ![c].pc = "circuits",
                                            ![c].used = <<fmtCalls[c].version>>]
       ELSE CallCaught(c) /\ UNCHANGED circuitManifest
    /\ UNCHANGED notCalls

\* getPackagedCircuit of one circuit settled: the rest of its formatSubCircuit,
\* and formatSubCircuit of the next circuit up to its request, made with what
\* the static field holds by then; after circuit F the data is returned
CallVkey(c, ok) ==
    /\ fmtCalls[c].pc = "circuits"
    /\ IF ~ok THEN CallCaught(c)
       ELSE IF Len(fmtCalls[c].used) = REQUIRED_PROOFS
       THEN fmtCalls' = [fmtCalls EXCEPT ![c].pc = "done", ![c].result = "data"]
       ELSE fmtCalls' = [fmtCalls EXCEPT ![c].used = Append(@, circuitManifest)]
    /\ UNCHANGED <<notCalls, circuitManifest>>

CallsNext ==
    \/ \E c \in Calls, version \in ManifestVersions : CallStart(c, version)
    \/ \E c \in Calls, ok \in BOOLEAN : CallManifest(c, ok)
    \/ \E c \in Calls, ok \in BOOLEAN : CallVkey(c, ok)

(***************************************************************************)
(* Part 7 (specification SpecJobs): processes of the send-message script   *)
(* that run at the same time, one per request /api/send-message is         *)
(* handling (send-message/route.ts, lines 58-68).  They share nonce.json;  *)
(* readFileSync and writeFileSync are two system calls of a process.       *)
(***************************************************************************)
MaxJobs == 2
Jobs == 1..MaxJobs

IdleJob == [pc |-> "idle", current_nonce |-> << >>, token_nonce |-> << >>]

\* execPromise(`node ${scriptPath}`): main up to its first await
JobStart(p) ==
    /\ scJobs[p].pc = "idle"
    /\ scJobs' = [scJobs EXCEPT ![p].pc = "connecting"]
    /\ UNCHANGED <<notJobs, scNonceFile>>

\* waitForPXE, getInitialTestAccountsWallets and TokenContract.at have settled;
\* send-message.mjs takes its constant, the other version reads nonce.json
JobConnect(p, ok) ==
    /\ scJobs[p].pc = "connecting"
    /\ scJobs' =
          IF ~ok THEN [scJobs EXCEPT ![p].pc = "exited"]
          ELSE IF scVersion = SendMessageMjs
          THEN [scJobs EXCEPT ![p].pc = "witnesses",
                              ![p].token_nonce = <<FIXED_TOKEN_NONCE>>]
          ELSE IF ~scNonceFile.exists THEN [scJobs EXCEPT ![p].pc = "exited"]
          ELSE [scJobs EXCEPT ![p].pc = "read",
                              ![p].current_nonce = <<StoredNonce(scNonceFile)>>]
    /\ UNCHANGED <<notJobs, scNonceFile>>

\* token_nonce = current_nonce + 1n and writeFileSync
JobWrite(p) ==
    /\ scJobs[p].pc = "read"
    /\ LET token_nonce == scJobs[p].current_nonce[1] + 1
       IN  /\ scNonceFile' = NonceFile(TRUE, <<token_nonce>>)
           /\ scJobs' = [scJobs EXCEPT ![p].pc = "witnesses",
                                       ![p].token_nonce = <<token_nonce>>]
    /\ UNCHANGED notJobs

\* the authorization witnesses and the send of verify_and_publish settled
JobSubmit(p, ok) ==
    /\ scJobs[p].pc = "witnesses"
    /\ scJobs' = [scJobs EXCEPT ![p].pc = IF ok THEN "submitted" ELSE "exited"]
    /\ UNCHANGED <<notJobs, scNonceFile>>

JobsNext ==
    \/ \E p \in Jobs : JobStart(p)
    \/ \E p \in Jobs, ok \in BOOLEAN : JobConnect(p, ok)
    \/ \E p \in Jobs : JobWrite(p)
    \/ \E p \in Jobs, ok \in BOOLEAN : JobSubmit(p, ok)

\* no call and no process of Parts 6 and 7 runs
OverlapIdle ==
    /\ fmtCalls = [c \in Calls |-> IdleCall]
    /\ scJobs = [p \in Jobs |-> IdleJob]

vars == <<pageVars, getVars, sendVars, fmtVars, scVars, ovVars>>

Init == PageInit /\ GetMsgIdle /\ SendIdle /\ FormatIdle /\ ScriptIdle /\ OverlapIdle

Spec == Init /\ [][PageNext]_vars

\* the page as it is when only a route or the formatter runs
PageClosed == PageInit /\ variant = "txhash"

InitGetMsg == GetMsgInit /\ PageClosed /\ SendIdle /\ FormatIdle /\ ScriptIdle /\ OverlapIdle

SpecGetMsg == InitGetMsg /\ [][GetMsgNext]_vars

InitSend == SendInit /\ PageClosed /\ GetMsgIdle /\ FormatIdle /\ ScriptIdle /\ OverlapIdle

SpecSend == InitSend /\ [][SendNext]_vars

InitFormat == FormatInit /\ PageClosed /\ GetMsgIdle /\ SendIdle /\ ScriptIdle /\ OverlapIdle

SpecFormat == InitFormat /\ [][FormatNext]_vars

InitAgain == AgainInit /\ PageClosed /\ GetMsgIdle /\ SendIdle /\ ScriptIdle /\ OverlapIdle

SpecAgain == InitAgain /\ [][AgainNext]_vars

InitScript == ScriptInit /\ PageClosed /\ GetMsgIdle /\ SendIdle /\ FormatIdle /\ OverlapIdle

SpecScript == InitScript /\ [][ScriptNext]_vars

InitCalls == PageClosed /\ GetMsgIdle /\ SendIdle /\ FormatIdle /\ ScriptIdle /\ OverlapIdle

SpecCalls == InitCalls /\ [][CallsNext]_vars

\* the script's own variables are those of a script that is not run; the
\* version and nonce.json are any
InitJobs ==
    /\ PageClosed /\ GetMsgIdle /\ SendIdle /\ FormatIdle /\ OverlapIdle
    /\ scVersion \in ScriptVersions
    /\ scNonceFile \in NonceFiles
    /\ scPc = "idle" /\ scData = NullData /\ scRuns = << >> /\ msgArrays = << >>

SpecJobs == InitJobs /\ [][JobsNext]_vars

\* ================================================================== claims
\* the claims' own words for a delivered message: non-empty, not "0x" and not
\* the 32-byte all-zero hex string
MessageDelivered(m) ==
    /\ m \notin {NullValue, Undefined, << >>}
    /\ m # <<"0", "x">>
    /\ m # ZERO32

\* the successful responses that carry a delivered message
DeliveredResponses(responses) ==
    {r \in responses : r.ok /\ r.success /\ MessageDelivered(r.message)}

DeliveredTxHashResponses == DeliveredResponses(TxHashPollResponses)
DeliveredDonationResponses == DeliveredResponses(DonationPollResponses)

\* the successful donation responses whose parsedData.amount is non-empty
AmountResponses ==
    {r \in DonationPollResponses :
        r.ok /\ r.success /\ r.amount \notin {Undefined, << >>}}

\* the loop is Polling: isPolling is true and the timer of the ref ticks
Polling == isPolling /\ pollingIntervalRef # NoTimer /\ Active(pollingIntervalRef)

\* no interval timer is left that could issue a poll request
NoTimerTicks == ActiveTimers = {} /\ pollingIntervalRef = NoTimer

C2_StoppedAndClearedExactlyOnce ==
    /\ pollingIntervalRef = NoTimer => ActiveTimers = {}
    /\ \A h \in Handles :
          h <= created
          => /\ Len(clearCalls[h]) <= 1
             /\ h # pollingIntervalRef => Len(clearCalls[h]) = 1

\* ---------------------------------------------------------------------- C3
\* C3: in every state of a session at most one interval timer is active, it is
\* the timer of the ref, and every handle created before the latest one has
\* been cleared (a start clears the previous timer before it creates its own).
C3_AtMostOneActiveTimer ==
    /\ Cardinality(ActiveTimers) <= 1
    /\ ActiveTimers \subseteq {pollingIntervalRef}
    /\ \A h \in Handles : h < created => ~Active(h)

\* polling was started while a timer was running: the start cleared it
C3_Witness ==
    /\ created = 2
    /\ clearCalls[1] = <<"start">>
    /\ Active(2)
    /\ pollingIntervalRef = 2

\* ---------------------------------------------------------------------- C4
\* the responses with which a poll attempt throws: the fetch rejects, or the
\* endpoint answers with a non-OK status
FailedResponses == {r \in TxHashPollResponses : r.threw \/ ~r.ok}

\* C4: when a poll attempt throws, the loop stops at once: the timer is
\* cleared and none is left to retry, isPolling becomes false and the status
\* carries the error's message (the rejection's message, the error field of
\* the non-OK answer, or "HTTP error <status>" when it has none).
C4_ThrowingPollStopsLoop ==
    [][\A h \in Handles, r \in FailedResponses :
          PollResponse(h, r)
          => /\ NoTimerTicks'
             /\ mounted
                => /\ ~isPolling'
                   /\ \E i \in DOMAIN txStatus' :
                         txStatus'[i] = (IF r.error # "" THEN r.error
                                         ELSE "HTTP error 500")
      ]_vars

\* a poll request failed and the loop stopped with the error shown
C4_Witness ==
    /\ mounted
    /\ created > 0
    /\ NoTimerTicks
    /\ ~isPolling
    /\ Len(txStatus) = 2
    /\ txStatus[2] = "Failed to fetch"

\* ---------------------------------------------------------------------- C5
\* the "not yet available" responses: success with a message that is null,
\* empty, "0x" or the all-zero 32-byte string
NotYetResponses ==
    {r \in TxHashPollResponses :
        r.ok /\ r.success /\ r.message \in {NullValue, << >>, <<"0", "x">>, ZERO32}}

\* C5: while the loop of page.tsx is Polling, a "not yet available" response
\* changes nothing (the timer stays active, isPolling stays true), and the
\* loop leaves Polling only by a confirming response, by stopPolling or by a
\* poll attempt that throws.
C5_PollingEndsOnlyByConfirmStopThrow ==
    [][mounted /\ mounted' /\ variant = "txhash" /\ Polling
       => /\ \A h \in Handles, r \in NotYetResponses :
                PollResponse(h, r)
                => /\ Polling'
                   /\ UNCHANGED <<pollingIntervalRef, clearCalls, isPolling,
                                  arbitrumMessage, txStatus>>
          /\ ~Polling'
             => clearCalls'[pollingIntervalRef]
                    \in {<<"confirmed">>, <<"stopPolling">>, <<"error">>}
      ]_vars

\* ---------------------------------------------------------------------- C6
\* C6: a request to /api/get-arbitrum-message whose body has an address and no
\* txHash is looked up on the chain and is not rejected as missing input.
C6_AddressBodyIsLookedUp ==
    (gmPc = "done" /\ gmBody.txHash = Undefined /\ IsString(gmBody.address))
    => /\ gmCode # NotRead
       /\ gmResponse.error # "Transaction hash is required"

\* ---------------------------------------------------------------------- C7
\* the chain read returned nothing: an empty result, "0x" or 32 zero bytes
EmptyRead == {NullValue, << >>, <<"0", "x">>, <<"0", "x">> \o Repeat("0", 64)}

\* C7: for every transaction hash, when the contract exists and the chain read
\* returns an empty result, "0x" or 32 zero bytes, the response is success:
\* true with message: null and without parsedData or amount.
C7_EmptyReadAnswersNull ==
    (gmPc = "done" /\ gmCode = DEPLOYED_CODE /\ gmRaw \in EmptyRead)
    => /\ gmResponse.status = 200
       /\ gmResponse.success
       /\ gmResponse.message = NullValue
       /\ ~gmResponse.parsedData
       /\ gmResponse.amount = Undefined

\* the spec's scenario: txHash "0x1234", the chain returns "0x"
C7_Witness ==
    /\ gmPc = "done"
    /\ gmBody.txHash = HASH_1234
    /\ gmCode = DEPLOYED_CODE
    /\ gmRaw = <<"0", "x">>
    /\ gmResponse.success
    /\ gmResponse.message = NullValue

MissingRoles(proofs) ==
    {r \in Roles : \A k \in DOMAIN proofs : ~NameMatches(proofs[k].name, PROOF_KEYWORDS[r])}

\* the call reported role r as missing
ReportedMissing(r) == \E k \in DOMAIN fmtLog : fmtLog[k] = MissingMessages[r]

\* C9 (as amended): for every set of proof artifacts in which some required
\* role keyword matches no artifact name, formatProofsForContract returns
\* undefined, whatever the number of artifacts; when the set holds exactly 6
\* artifacts the call also reports every missing role by name.
C9_MissingRoleFailsAndIsNamed ==
    fmtPc = "done" /\ MissingRoles(fmtProofs) # {}
    => /\ fmtReturn = "undefined"
       /\ Len(fmtProofs) = REQUIRED_PROOFS
             => \A r \in MissingRoles(fmtProofs) : ReportedMissing(r)

\* a call with 6 artifacts and several missing roles, each of them reported
C9_Witness ==
    /\ fmtPc = "done"
    /\ Len(fmtProofs) = REQUIRED_PROOFS
    /\ Cardinality(MissingRoles(fmtProofs)) >= 2
    /\ fmtReturn = "undefined"
    /\ \A r \in MissingRoles(fmtProofs) : ReportedMissing(r)

\* C9 as stated: every missing role is reported regardless of the number of
\* artifacts in the set
C9_Original ==
    fmtPc = "done" /\ MissingRoles(fmtProofs) # {}
    => /\ fmtReturn = "undefined"
       /\ \A r \in MissingRoles(fmtProofs) : ReportedMissing(r)

\* C10: formatProofsForContract returns ContractProofData only when the input
\* holds exactly 6 proof artifacts; for an input with fewer or more than 6 it
\* asks the registry for nothing and returns undefined.
C10_DataOnlyForSixArtifacts ==
    /\ fmtReturn = "data" => Len(fmtProofs) = REQUIRED_PROOFS
    /\ fmtPc # "idle" /\ Len(fmtProofs) # REQUIRED_PROOFS
          => /\ fmtFetches = << >>
             /\ fmtPc \in {"start", "done"}
             /\ fmtPc = "done" => fmtReturn = "undefined"

\* a call with 7 artifacts among which every role is present has returned
\* undefined without a registry request
C10_Witness ==
    /\ fmtPc = "done"
    /\ Len(fmtProofs) = REQUIRED_PROOFS + 1
    /\ MissingRoles(fmtProofs) = {}
    /\ fmtReturn = "undefined"
    /\ fmtFetches = << >>

\* a call with 6 artifacts has returned ContractProofData
FormatSucceeded ==
    /\ fmtPc = "done"
    /\ fmtReturn = "data"
    /\ Len(fmtFormatted) = REQUIRED_PROOFS


\* the validation errors that name a length of answer `a` that is wrong
LengthErrors(a, circuit) ==
    {e \in {MakeError("Invalid vkey size", circuit, <<VKEY_SIZE>>, a.vkey),
            MakeError("Invalid proof size", circuit, <<PROOF_SIZE>>, a.proof),
            MakeError("Invalid public inputs size", circuit, <<2, 5, 10>>, a.inputs),
            MakeError("Invalid commitments size", circuit, <<2>>, Len(a.commitments))} :
        e.got \notin {e.expected[k] : k \in DOMAIN e.expected}}

\* answer `a` has a wrong length: its key was fetched, its commitments were
\* extracted, and validateProofData rejects it
HasWrongLength(a) ==
    /\ a.vkey # 0
    /\ a.commitments # << >>
    /\ ~ValidProofData(a.vkey, a.proof, a.inputs, Len(a.commitments))

\* the error the catch block of formatProofsForContract received
CaughtAtTop == fmtErrors[Len(fmtErrors)]

\* C11 (as amended): for every circuit whose verification key length differs
\* from 128, whose proof length differs from 456 or whose public-input length
\* is not 2, 5 or 10, formatting fails: formatProofsForContract returns
\* undefined.  The validation error that identifies the offending circuit and
\* the expected versus actual length is logged by formatSubCircuit; the error
\* that reaches formatProofsForContract is the generic "Failed to format
\* SubCircuitX: Invalid or missing data", which names the circuit only.
C11_WrongLengthFailsAndIsLogged ==
    [][\A a \in SubCircuitAnswers :
          /\ FmtSubCircuit(a.vkey, a.proof, a.inputs, a.commitments)
          /\ fmtProofs[fmtFound[fmtNext]].complete
          /\ HasWrongLength(a)
          => /\ fmtPc' = "done" /\ fmtReturn' = "undefined"
             /\ Len(fmtErrors') = Len(fmtErrors) + 2
             /\ LET logged == fmtErrors'[Len(fmtErrors') - 1]
                    top == fmtErrors'[Len(fmtErrors')]
                IN  /\ logged.context = <<"formatSubCircuit", RoleLetters[fmtNext]>>
                    /\ logged.error \in LengthErrors(a, RoleLetters[fmtNext])
                    /\ top.context = <<"formatProofsForContract">>
                    /\ top.error = FormatError(RoleLetters[fmtNext])]_vars

\* circuit D came back with a proof of 457 fields: the call returned undefined
\* and the validation error was logged with the circuit and both lengths
C11_Witness ==
    /\ fmtPc = "done"
    /\ fmtReturn = "undefined"
    /\ Len(fmtErrors) = 2
    /\ fmtErrors[1] = Logged(<<"formatSubCircuit", "D">>,
                             MakeError("Invalid proof size", "D", <<PROOF_SIZE>>,
                                       PROOF_SIZE + 1))
    /\ CaughtAtTop.error = FormatError("D")

\* C11 as stated: the failure that leaves formatSubCircuit for the formatter's
\* caller is the validation error with the circuit and the lengths
C11_Original ==
    [][\A a \in SubCircuitAnswers :
          /\ FmtSubCircuit(a.vkey, a.proof, a.inputs, a.commitments)
          /\ fmtProofs[fmtFound[fmtNext]].complete
          /\ HasWrongLength(a)
          => /\ fmtReturn' = "undefined"
             /\ fmtErrors'[Len(fmtErrors')].error
                   \in LengthErrors(a, RoleLetters[fmtNext])]_vars


\* ContractProofData links circuit k to circuit k + 1: A to B, B to C and C to D
\* by output and input commitment; D, E and F carry a nullifier in their second
\* slot, so E and F are linked either to that slot or to the output of C
Linked(formatted, k) ==
    \/ formatted[k].commitments[2] = formatted[k + 1].commitments[1]
    \/ k > 3 /\ formatted[3].commitments[2] = formatted[k + 1].commitments[1]

Chained(formatted) == \A k \in 1..(Len(formatted) - 1) : Linked(formatted, k)

SlotFilled(k) ==
    LET slot == fmtFormatted[k]
    IN  /\ slot.vkey = VKEY_SIZE
        /\ slot.proof = PROOF_SIZE
        /\ slot.public_inputs \in {2, 5, 10}
        /\ slot.vkey_hash = fmtProofs[fmtFound[k]].name
        /\ slot.vkey_hash # Undefined

\* some step of the call has failed
StepFailed ==
    \/ WrongCount(fmtProofs)
    \/ \E r \in Roles : fmtFound[r] = 0
    \/ fmtErrors # << >>

\* C13: formatProofsForContract never throws and never returns a partial
\* result: when any step fails it returns undefined, and otherwise all six
\* verification-key, proof, verification-key-hash and public-input slots of
\* the ContractProofData are filled.
C13_UndefinedOrAllSixSlots ==
    /\ fmtReturn # "threw"
    /\ fmtPc = "done" => fmtReturn \in {"undefined", "data"}
    /\ fmtReturn = "undefined" => StepFailed
    /\ fmtReturn = "data"
          => /\ fmtErrors = << >>
             /\ Len(fmtFormatted) = REQUIRED_PROOFS
             /\ \A k \in Roles : SlotFilled(k)

\* circuits A to E were formatted, circuit F failed, and the call returned
\* undefined
C13_Witness ==
    /\ fmtPc = "done"
    /\ Len(fmtFormatted) = REQUIRED_PROOFS - 1
    /\ CaughtAtTop.error = FormatError("F")
    /\ fmtReturn = "undefined"


\* the call is the second of two and has settled
SecondCallDone == fmtPc = "done" /\ fmtFirst # << >>

\* the second call settled as the first did
SameAsFirst ==
    /\ fmtReturn = fmtFirst[1].return
    /\ fmtFormatted = fmtFirst[1].formatted

\* C14: with a registry that answers the same lookups with the same values,
\* two successive calls of formatProofsForContract on the same proof set yield
\* identical ContractProofData (or both fail); the first call leaves no state
\* that changes the result of the second.
C14_SecondCallSameAsFirst ==
    SecondCallDone /\ fmtProofs = fmtFirst[1].proofs => SameAsFirst

\* both calls on the same proof set returned ContractProofData, the second
\* with a manifest already stored by the first
C14_Witness ==
    /\ SecondCallDone
    /\ fmtProofs = fmtFirst[1].proofs
    /\ fmtFirst[1].return = "data"
    /\ fmtReturn = "data"
    /\ Len(fmtFormatted) = REQUIRED_PROOFS


\* each role keyword matches exactly one artifact name of the set
OneArtifactPerKeyword(proofs) ==
    \A r \in Roles :
        Cardinality({k \in DOMAIN proofs :
                        NameMatches(proofs[k].name, PROOF_KEYWORDS[r])}) = 1

\* C19: the order check is diagnostic only: for every set of 6 artifacts in
\* which each role keyword matches exactly one artifact name,
\* formatProofsForContract produces the same result for every arrival order
\* of the artifacts.
C19_SameResultInEveryOrder ==
    SecondCallDone /\ OneArtifactPerKeyword(fmtProofs) => SameAsFirst

\* the same artifacts arrived in another order, the order check complained,
\* and both calls returned the same ContractProofData
C19_Witness ==
    /\ SecondCallDone
    /\ OneArtifactPerKeyword(fmtProofs)
    /\ fmtProofs # fmtFirst[1].proofs
    /\ \E k \in DOMAIN fmtLog : fmtLog[k] = "Proofs are not in the correct order."
    /\ fmtReturn = "data"
    /\ SameAsFirst


\* the registry requests of a call that succeeds, in order
AllFetches == <<"manifest", "A", "B", "C", "D", "E", "F">>

\* C20: the registry is asked for the manifest once and then for one
\* verification key per circuit, in the order A, B, C, D, E, F, each only after
\* the circuit before it has been formatted; when the fetch or the validation
\* of a circuit fails, no request is made for a later circuit and the call
\* returns undefined.
C20_RequestsInOrderUntilFailure ==
    /\ Len(fmtFetches) <= Len(AllFetches)
    /\ fmtFetches = SubSeq(AllFetches, 1, Len(fmtFetches))
    /\ Len(fmtFetches) <= Len(fmtFormatted) + 2
    /\ fmtFormatted # << >> => Len(fmtFetches) >= Len(fmtFormatted) + 1
    /\ fmtErrors # << >>
          => /\ fmtPc = "done" /\ fmtReturn = "undefined"
             /\ \A k \in 1..REQUIRED_PROOFS :
                    CaughtAtTop.error = FormatError(RoleLetters[k])
                    => /\ Len(fmtFormatted) = k - 1
                       /\ Len(fmtFetches) <= k + 1

\* the key fetched for circuit C had 127 fields: the requests made are the
\* manifest, A, B and C, and the call returned undefined
C20_Witness ==
    /\ fmtPc = "done"
    /\ fmtReturn = "undefined"
    /\ fmtFetches = <<"manifest", "A", "B", "C">>
    /\ fmtErrors[1].error = MakeError("Invalid vkey size", "C", <<VKEY_SIZE>>,
                                      VKEY_SIZE - 1)


\* ---------------------------------------------------------------------- C18
\* C18: a confirmation value or a polling error is recorded only while the
\* loop is Polling (a timer is active and isPolling is true): the response of
\* a poll that was in flight when the loop left Polling, for instance because
\* the user stopped it, records no confirmation and changes no status.
C18_RecordedOnlyWhilePolling ==
    [][mounted /\ ~Polling
       => \A h \in Handles : \A r \in PollResponses(variant) :
             PollResponse(h, r)
             => UNCHANGED <<arbitrumMessage, receivedDonation, txStatus>>
      ]_vars


\* ---------------------------------------------------------------------- C15
\* C15: each run of the send-message script reads the stored token_nonce n (0
\* when the field is absent), writes n + 1 back to the nonce file before
\* submitting and uses n + 1 for both authorization witnesses and the contract
\* call; over non-overlapping runs the stored counter increases by exactly one
\* per run, whether or not the transaction succeeds.
C15_CounterAdvancesOncePerRun ==
    \A k \in DOMAIN scRuns :
        LET run == scRuns[k]
        IN  /\ \A u \in DOMAIN run.uses : run.uses[u] = StoredNonce(run.before) + 1
            /\ run.uses # << >> => StoredNonce(scNonceFile) >= StoredNonce(run.before) + 1
            /\ run.exit # -1
                  => /\ run.after.exists
                     /\ StoredNonce(run.after) = StoredNonce(run.before) + 1

\* ---------------------------------------------------------------------- C16
\* the 20 bytes of the destination address of each version of the script
VaultBytes ==
    IF scVersion = SendMessageMjs
    THEN <<214, 17, 241, 175, 157, 5, 111, 0, 244, 156, 176, 54, 117, 157, 226,
           117, 62, 250, 130, 194>>
    ELSE <<0, 156, 187, 143, 145, 211, 146, 133, 108, 184, 128, 214, 124, 128,
           106, 167, 49, 227, 214, 134>>

\* C16: for every verification data value (including null), createMessageArrays
\* returns exactly 7 chunks of exactly 31 bytes each, with chunk 0 holding the
\* 20 destination-address bytes in bytes 0..19, chunk 1 holding the chain id
\* (10004 = 0x2714) in its leading bytes, and byte 30 of chunk i equal to i + 1.
C16_SevenTaggedChunks ==
    msgArrays # << >>
    => /\ Len(msgArrays) = 7
       /\ \A i \in 1..7 :
             /\ DOMAIN msgArrays[i] = 1..31
             /\ \A k \in 1..31 : msgArrays[i][k] \in 0..255
             /\ msgArrays[i][31] = i
       /\ SubSeq(msgArrays[1], 1, 20) = VaultBytes
       /\ msgArrays[2][1] = 20 /\ msgArrays[2][2] = 39

\* the second run built its payload for a first name that encodes to 32 bytes:
\* 7 chunks, the name cut after 31 bytes and its last byte replaced by the tag
C16_Witness ==
    /\ Len(scRuns) = 2
    /\ scPc = "calling"
    /\ Len(Encode(scData.firstName)) = 32
    /\ Len(msgArrays) = 7
    /\ msgArrays[3][30] = 65

\* ---------------------------------------------------------------------- C17
\* the bytes of str can be read back from the chunk
ReadsBack(chunk, str) ==
    \A k \in 1..Len(Encode(str)) : chunk[k] = Encode(str)[k]

\* C17: when the verification data carries user-disclosed fields, the payload
\* submitted to verify_and_publish encodes them: chunk 2 holds the first-name
\* bytes, chunk 3 the document-type bytes, chunk 4 byte 0 the EU-citizen flag
\* and chunk 5 byte 0 the over-18 flag, and every byte of a first name or
\* document type of up to 31 bytes can be read back from its chunk.
C17_UserFieldsAreEncoded ==
    msgArrays # << >> /\ ~scData.isNull
    => /\ Len(Encode(scData.firstName)) <= 31 => ReadsBack(msgArrays[3], scData.firstName)
       /\ Len(Encode(scData.documentType)) <= 31
             => ReadsBack(msgArrays[4], scData.documentType)
       /\ scData.isEUCitizen # "undefined"
             => msgArrays[5][1] = (IF scData.isEUCitizen = "true" THEN 1 ELSE 0)
       /\ scData.isOver18 # "undefined"
             => msgArrays[6][1] = (IF scData.isOver18 = "true" THEN 1 ELSE 0)


\* ---------------------------------------------------------------------- C21
\* the digits of a transaction hash given as a string
HashDigits(h) == IF StartsWith(h, <<"0", "x">>) THEN SubSeq(h, 3, Len(h)) ELSE h

\* a txHash that is present and malformed: not a string, with a character
\* that is no hex digit, or longer than 32 bytes
Malformed(h) ==
    /\ Truthy(h)
    /\ \/ ~IsString(h)
       \/ ~IsHexString(HashDigits(h))
       \/ Len(HashDigits(h)) > 64

\* C21: a request to /api/get-arbitrum-message whose txHash is malformed is
\* answered with "Invalid transaction hash format" (status 400) and no chain
\* call is made for it; only well-formed hashes of at most 32 bytes reach the
\* chain, left-padded to exactly 32 bytes.
C21_MalformedHashIsRejectedUnread ==
    /\ gmPc # "idle" /\ Malformed(gmBody.txHash)
          => /\ gmCode = NotRead
             /\ gmRaw = NotRead
             /\ gmPc = "done"
                   => /\ gmResponse.status = 400
                      /\ gmResponse.error = "Invalid transaction hash format"
    /\ gmCallArg # Undefined
          => /\ ~Malformed(gmBody.txHash)
             /\ gmCallArg = <<"0", "x">> \o PadStart(HashDigits(gmBody.txHash), 64, "0")


\* ---------------------------------------------------------------------- C22
\* C22: on the donation page a request is opened only with an amount within
\* 1..MAX_DONATION, and the amount its verificationData carries to
\* /api/send-message is the amount locked when that request was created.
C22_SentAmountIsTheLockedOne ==
    variant = "donation"
        => \A i \in Slots :
              /\ reqs[i].stage # "free" => reqs[i].locked \in 1..MAX_DONATION
              /\ reqs[i].stage = "sending" => reqs[i].amount = reqs[i].locked


\* ---------------------------------------------------------------------- C23
\* C23: while the component is mounted, isPolling is true exactly when a
\* polling timer is running.
C23_PollingFlagMatchesTimer ==
    mounted => (isPolling <=> ActiveTimers # {})


\* ---------------------------------------------------------------------- C24
\* the step hands the answer of a poll issued by timer h to its callback
AnswersPollOf(h) == inFlight'[h] < inFlight[h]

\* C24: the answer to a poll issued by a timer that is no longer the current
\* one leaves the current session alone: it does not clear the current timer,
\* does not change isPolling and records no message or donation.
C24_LateAnswerLeavesNewSessionAlone ==
    [][\A h \in Handles :
          AnswersPollOf(h) /\ pollingIntervalRef \notin {NoTimer, h}
              => /\ pollingIntervalRef' = pollingIntervalRef
                 /\ clearCalls'[pollingIntervalRef] = clearCalls[pollingIntervalRef]
                 /\ isPolling' = isPolling
                 /\ arbitrumMessage' = arbitrumMessage
                 /\ receivedDonation' = receivedDonation]_vars


\* ---------------------------------------------------------------------- C25
\* C25: a timer has at most one poll request outstanding: no tick issues a
\* request while the answer to the previous one is still awaited.
C25_OnePollInFlight ==
    \A h \in Handles : inFlight[h] <= 1


\* ---------------------------------------------------------------------- C26
\* C26: on the pages that format proofs, a result is posted to
\* /api/send-message only when the proof service reported it verified and
\* formatProofsForContract returned data for it.
C26_SendsOnlyVerifiedAndFormatted ==
    variant \in {"txhash", "donation"}
        => \A i \in Slots :
              reqs[i].stage = "sending" => reqs[i].verified /\ reqs[i].formatted


\* ---------------------------------------------------------------------- C27
\* C27: whenever formatProofsForContract returns data, the six roles were
\* filled from six different artifacts.
C27_SixDistinctArtifacts ==
    FormatSucceeded
        => \A r1, r2 \in Roles : r1 # r2 => fmtFound[r1] # fmtFound[r2]


\* ---------------------------------------------------------------------- C28
\* ZKPASSPORT_CONFIG.PUBLIC_INPUT_SIZES: input_a to input_f
PUBLIC_INPUT_SIZES == <<2, 2, 10, 5, 5, 5>>

\* C28: whenever formatProofsForContract returns data, the public inputs of
\* each circuit have the length PUBLIC_INPUT_SIZES configures for it.
C28_PublicInputsHaveConfiguredSize ==
    FormatSucceeded
        => \A k \in Roles : fmtFormatted[k].public_inputs = PUBLIC_INPUT_SIZES[k]


\* ---------------------------------------------------------------------- C29
\* C29: every request of a packaged circuit that a call of
\* formatProofsForContract makes is made with the manifest of the version of
\* that call's own proofs, also when calls overlap.
C29_OwnManifest ==
    \A c \in Calls :
        \A k \in 1..Len(fmtCalls[c].used) : fmtCalls[c].used[k] = fmtCalls[c].version

\* ---------------------------------------------------------------------- C30
\* the processes that have taken their token nonce
TookNonce == {p \in Jobs : scJobs[p].token_nonce # << >>}

\* the counter before the first of them ran: the least value one of them read
CounterBefore ==
    CHOOSE n \in {scJobs[p].current_nonce[1] : p \in TookNonce} :
        \A p \in TookNonce : n <= scJobs[p].current_nonce[1]

\* C30: the runs of the script that keeps its counter in nonce.json, also
\* when they overlap, take different token nonces and leave the counter
\* advanced by the number of runs.
C30_DistinctNoncesAndCounter ==
    scVersion = NonceFileMjs
        => /\ \A p, q \in TookNonce :
                 p # q => scJobs[p].token_nonce # scJobs[q].token_nonce
           /\ TookNonce # {}
                 => StoredNonce(scNonceFile) = CounterBefore + Cardinality(TookNonce)

=============================================================================
